---- MODULE Spec2Model ----
(***************************************************************************)
(* A model of the tmux keybinding tutor (MattKotzbauer/moobler).           *)
(*                                                                         *)
(* Text is modelled at character level: a string is a sequence of          *)
(* one-character strings, so that Python's str and re operations          *)
(* (splitlines, startswith, re.search, re.subn) are computed as the code   *)
(* computes them.                                                          *)
(*                                                                         *)
(*   Spec      ConfigMerger (src/src/config/merger.py) acting on the       *)
(*             config file and the backup directory.                       *)
(*   TwiceSpec two add_keybinding calls in a row on a config drawn from a  *)
(*             pool of line sequences.                                     *)
(*   TextSpec  one ConfigMerger operation applied to a config drawn from   *)
(*             a larger pool of line sequences.                            *)
(*   BatchSpec one add_multiple_keybindings call on a config drawn from a  *)
(*             pool of line sequences.                                     *)
(*   KeySpec   get_expected_key and parse_keybind                          *)
(*             (src/scripts/overlay/keybind_parser.py) applied to          *)
(*             notations drawn from a bounded set.                         *)
(*   ParseSpec _parse_bind_line (src/src/config/parser.py) applied to one  *)
(*             line, and to the line format_binding makes of its result.   *)
(*   StyleSpec parse_tmux_config applied to a config of bind lines.        *)
(*   OptionSpec parse_tmux_config applied to a config of set lines.        *)
(*   OverlaySpec the SequenceController (src/scripts/overlay/sequence.py)  *)
(*             handling key events and its single-shot timers.             *)
(*   SectionSpec add_keybinding calls with a category on a config made of  *)
(*             section headers and other lines.                            *)
(*   ReparseSpec parse_tmux_config, one add_keybinding call and            *)
(*             parse_tmux_config again, on the same config file.           *)
(***************************************************************************)
EXTENDS Integers, Sequences, FiniteSets, TLC

VARIABLES
    config,     \* the file at config_path: [exists, data]
    backups,    \* the backup directory: timestamp -> [exists, data]
    now,        \* the wall clock, in whole seconds (the strftime resolution)
    hist,       \* the operations performed so far, with their outcomes
    notation,   \* KeySpec: the keybind notation handed to get_expected_key
    expected,   \* KeySpec: [called, modifiers, key], what get_expected_key returned
    display,    \* KeySpec: [called, macos, text], what parse_keybind returned
    bindline,   \* ParseSpec: the line handed to _parse_bind_line
    keybinding, \* ParseSpec: [called, none, key, ...], what _parse_bind_line returned
    roundtrip,  \* ParseSpec: what _parse_bind_line returned for the formatted line
    tmux,       \* StyleSpec: the TmuxConfig parse_tmux_config returned
    controller, \* OverlaySpec: the fields of the SequenceController
    timers,     \* OverlaySpec: the QTimer.singleShot callbacks not yet fired
    window,     \* OverlaySpec: the OverlayWindow: [closed]
    keylog      \* OverlaySpec: the key events handled so far: [key, modifiers, index]

mergerVars == <<config, backups, now, hist>>
keyVars == <<notation, expected, display>>
parserVars == <<bindline, keybinding, roundtrip, tmux>>
overlayVars == <<controller, timers, window, keylog>>
vars == <<mergerVars, keyVars, parserVars, overlayVars>>

(***************************************************************************)
(* Bounds of the model.                                                    *)
(***************************************************************************)
MaxOps == 2         \* operations per behaviour of Spec
MaxClock == 2       \* last clock second of a behaviour
MaxInitLines == 2   \* lines of the initial config in TwiceSpec and BatchSpec
MaxTextLines == 3   \* lines of the initial config in TextSpec
MaxBatch == 3       \* items of one add_multiple_keybindings call in BatchSpec
MaxGap == 2         \* blanks between two words of a line in ParseSpec
MaxStyleLines == 3  \* lines of the config in StyleSpec
MaxOptionLines == 3 \* lines of the config in OptionSpec

(***************************************************************************)
(* Characters and strings.                                                 *)
(***************************************************************************)
NL == "\n"
SP == " "

\* Python's \s, restricted to the characters the model's texts use.
IsSpace(c) == c \in {" ", "\t", "\n", "\r", "\f"}

RECURSIVE Concat(_)
Concat(ss) == IF ss = <<>> THEN <<>> ELSE Head(ss) \o Concat(Tail(ss))

\* sep.join(parts)
RECURSIVE Join(_, _)
Join(sep, parts) ==
    IF parts = <<>> THEN <<>>
    ELSE IF Len(parts) = 1 THEN parts[1]
    ELSE parts[1] \o sep \o Join(sep, Tail(parts))

\* s[i-1:].startswith(w), for a 1-based position i
StartsWithAt(s, i, w) ==
    /\ i + Len(w) - 1 <= Len(s)
    /\ \A j \in 1..Len(w) : s[i + j - 1] = w[j]

StartsWith(s, w) == StartsWithAt(s, 1, w)

\* str.splitlines(): pieces between line breaks, no empty piece after a final break
RECURSIVE SplitFrom(_, _)
SplitFrom(s, i) ==
    LET ends == {j \in i..Len(s) : s[j] = NL}
        end == CHOOSE j \in ends : \A k \in ends : j <= k
    IN IF i > Len(s) THEN <<>>
       ELSE IF ends = {} THEN <<SubSeq(s, i, Len(s))>>
       ELSE <<SubSeq(s, i, end - 1)>> \o SplitFrom(s, end + 1)

splitlines(s) == SplitFrom(s, 1)

\* list.insert(at, x) for 0 <= at <= len(list)
InsertAt(list, at, x) ==
    SubSeq(list, 1, at) \o <<x>> \o SubSeq(list, at + 1, Len(list))

(***************************************************************************)
(* Python's re, for the patterns the merger builds: a pattern is a         *)
(* sequence of items matched left to right with backtracking, greedy       *)
(* items trying their longest match first.                                 *)
(*   bol / eol    ^ and $ under re.MULTILINE                               *)
(*   lit w        the literal w (re.escape(w))                             *)
(*   opt w        (?:w)?                                                   *)
(*   rep cls min  cls* (min 0) or cls+ (min 1), cls one of \s, \n and .,   *)
(*                or one character standing for itself                     *)
(***************************************************************************)
Bol == [t |-> "bol", w |-> <<>>, cls |-> "", min |-> 0]
Eol == [t |-> "eol", w |-> <<>>, cls |-> "", min |-> 0]
Lit(w) == [t |-> "lit", w |-> w, cls |-> "", min |-> 0]
Opt(w) == [t |-> "opt", w |-> w, cls |-> "", min |-> 0]
Rep(cls, min) == [t |-> "rep", w |-> <<>>, cls |-> cls, min |-> min]
WsStar == Rep("ws", 0)
WsPlus == Rep("ws", 1)
DotStar == Rep("dot", 0)

InClass(cls, c) ==
    CASE cls = "ws" -> IsSpace(c)
      [] cls = "nl" -> c = NL
      [] cls = "dot" -> c # NL
      [] OTHER -> c = cls

AtBol(s, i) == i = 1 \/ s[i - 1] = NL
AtEol(s, i) == i = Len(s) + 1 \/ s[i] = NL

\* the length of the longest run of cls characters starting at position i
RECURSIVE MaxRun(_, _, _)
MaxRun(s, i, cls) ==
    IF i <= Len(s) /\ InClass(cls, s[i]) THEN 1 + MaxRun(s, i + 1, cls) ELSE 0

\* The position after the match of items k.. of re at position i of s that
\* the backtracking matcher finds first; 0 when there is none.
RECURSIVE MatchFrom(_, _, _, _), TryRep(_, _, _, _, _)
MatchFrom(re, k, s, i) ==
    IF k > Len(re) THEN i
    ELSE LET it == re[k] IN
      CASE it.t = "bol" -> IF AtBol(s, i) THEN MatchFrom(re, k + 1, s, i) ELSE 0
        [] it.t = "eol" -> IF AtEol(s, i) THEN MatchFrom(re, k + 1, s, i) ELSE 0
        [] it.t = "lit" -> IF StartsWithAt(s, i, it.w)
                           THEN MatchFrom(re, k + 1, s, i + Len(it.w)) ELSE 0
        [] it.t = "opt" ->
             LET with == IF StartsWithAt(s, i, it.w)
                         THEN MatchFrom(re, k + 1, s, i + Len(it.w)) ELSE 0
             IN IF with # 0 THEN with ELSE MatchFrom(re, k + 1, s, i)
        [] OTHER -> TryRep(re, k, s, i, MaxRun(s, i, it.cls))

TryRep(re, k, s, i, n) ==
    IF n < re[k].min THEN 0
    ELSE LET r == MatchFrom(re, k + 1, s, i + n)
         IN IF r # 0 THEN r ELSE TryRep(re, k, s, i, n - 1)

\* re.search from position i on: the leftmost start with a match, 0 if none
RECURSIVE SearchFrom(_, _, _)
SearchFrom(re, s, i) ==
    IF i > Len(s) + 1 THEN 0
    ELSE IF MatchFrom(re, 1, s, i) # 0 THEN i
    ELSE SearchFrom(re, s, i + 1)

\* re.search(re, s, re.MULTILINE) is not None
re_search(re, s) == SearchFrom(re, s, 1) # 0

\* re.subn(re, "", s, flags=re.MULTILINE), for patterns that match no empty
\* string: [out |-> the text without its matches, count |-> their number]
RECURSIVE SubnFrom(_, _, _)
SubnFrom(re, s, pos) ==
    LET st == SearchFrom(re, s, pos) IN
    IF st = 0 THEN [out |-> SubSeq(s, pos, Len(s)), count |-> 0]
    ELSE LET en == MatchFrom(re, 1, s, st)
             rest == SubnFrom(re, s, en)
         IN [out |-> SubSeq(s, pos, st - 1) \o rest.out, count |-> rest.count + 1]

re_subn(re, s) == SubnFrom(re, s, 1)

(***************************************************************************)
(* Letters, for str.lower, str.isupper, str.title and re.IGNORECASE.       *)
(***************************************************************************)
UpperLetters == <<"A", "B", "C", "D", "E", "F", "G", "H", "I", "J", "K", "L", "M",
                  "N", "O", "P", "Q", "R", "S", "T", "U", "V", "W", "X", "Y", "Z">>
LowerLetters == <<"a", "b", "c", "d", "e", "f", "g", "h", "i", "j", "k", "l", "m",
                  "n", "o", "p", "q", "r", "s", "t", "u", "v", "w", "x", "y", "z">>

IsUpperChar(c) == \E i \in 1..26 : UpperLetters[i] = c
IsLowerChar(c) == \E i \in 1..26 : LowerLetters[i] = c
LowerChar(c) ==
    IF IsUpperChar(c) THEN LowerLetters[CHOOSE i \in 1..26 : UpperLetters[i] = c] ELSE c
UpperChar(c) ==
    IF IsLowerChar(c) THEN UpperLetters[CHOOSE i \in 1..26 : LowerLetters[i] = c] ELSE c

\* str.lower()
Lower(s) == [i \in 1..Len(s) |-> LowerChar(s[i])]

\* str.title(): a letter is upper-cased after a non-letter, lower-cased after a letter
Title(s) ==
    [i \in 1..Len(s) |->
        IF i > 1 /\ (IsUpperChar(s[i - 1]) \/ IsLowerChar(s[i - 1]))
        THEN LowerChar(s[i]) ELSE UpperChar(s[i])]

(***************************************************************************)
(* src/src/config/models.py: BindingMode, and the words of a bind line.    *)
(***************************************************************************)
PREFIX == "prefix"
ROOT == "root"
COPY_MODE == "copy-mode"
COPY_MODE_VI == "copy-mode-vi"
BindingMode == {PREFIX, ROOT, COPY_MODE, COPY_MODE_VI}

\* mode.value as text
ModeValue(mode) ==
    CASE mode = COPY_MODE -> <<"c", "o", "p", "y", "-", "m", "o", "d", "e">>
      [] mode = COPY_MODE_VI -> <<"c", "o", "p", "y", "-", "m", "o", "d", "e", "-", "v", "i">>
      [] mode = ROOT -> <<"r", "o", "o", "t">>
      [] OTHER -> <<"p", "r", "e", "f", "i", "x">>

W_bind == <<"b", "i", "n", "d">>
W_dash_key == <<"-", "k", "e", "y">>
W_dash_n == <<"-", "n">>
W_dash_T == <<"-", "T">>
W_hash == <<"#">>
W_keybind == <<"k", "e", "y", "b", "i", "n", "d">>
W_keybindings == <<" ", "k", "e", "y", "b", "i", "n", "d", "i", "n", "g", "s">>

\* the text add_keybinding writes into a config it has to create
NewConfigText == <<"#", " ", "t", "m", "u", "x", " ", "c", "o", "n", "f", "i", "g", "u", "r", "a", "t", "i", "o", "n", "\n", "\n">>

(***************************************************************************)
(* Files.  A file is [exists, data]; the backup directory maps each        *)
(* timestamp (the name tmux.conf.<timestamp>.bak) to a file.               *)
(***************************************************************************)
Stamps == 0..MaxClock
NoFile == [exists |-> FALSE, data |-> <<>>]
File(data) == [exists |-> TRUE, data |-> data]

\* Path.read_text(): universal newlines, "\r\n" and "\r" are read as "\n"
read_text(data) ==
    LET at == [i \in 1..Len(data) |-> <<i, data[i]>>]
        kept == SelectSeq(at, LAMBDA p : ~(p[2] = NL /\ p[1] > 1 /\ data[p[1] - 1] = "\r"))
    IN [i \in 1..Len(kept) |-> IF kept[i][2] = "\r" THEN NL ELSE kept[i][2]]

(***************************************************************************)
(* src/src/config/merger.py: ConfigMerger.                                 *)
(***************************************************************************)
\* backup_config without its check that the config exists
backup_config_nocheck(cfg, bks, t) ==
    [raised |-> "", backups |-> [bks EXCEPT ![t] = File(cfg.data)], path |-> t]

\* backup_config: [raised, backups, path]
backup_config(cfg, bks, t) ==
    IF ~cfg.exists
    THEN [raised |-> "FileNotFoundError", backups |-> bks, path |-> -1]
    ELSE [raised |-> "", backups |-> [bks EXCEPT ![t] = File(cfg.data)], path |-> t]

\* restore_backup: [raised, config]
restore_backup(cfg, bks, path) ==
    IF ~bks[path].exists
    THEN [raised |-> "FileNotFoundError", config |-> cfg]
    ELSE [raised |-> "", config |-> File(bks[path].data)]

format_binding(keybind, command, description, mode) ==
    LET comment == IF description # <<>> THEN <<W_hash \o <<SP>> \o description>> ELSE <<>>
        line == CASE mode = ROOT ->
                       W_bind \o <<SP>> \o W_dash_n \o <<SP>> \o keybind \o <<SP>> \o command
                  [] mode = COPY_MODE_VI ->
                       W_bind \o <<SP>> \o W_dash_T \o <<SP>> \o ModeValue(COPY_MODE_VI)
                         \o <<SP>> \o keybind \o <<SP>> \o command
                  [] mode = COPY_MODE ->
                       W_bind \o <<SP>> \o W_dash_T \o <<SP>> \o ModeValue(COPY_MODE)
                         \o <<SP>> \o keybind \o <<SP>> \o command
                  [] OTHER -> W_bind \o <<SP>> \o keybind \o <<SP>> \o command
    IN Join(<<NL>>, comment \o <<line>>)

\* the category as re reads it inside a pattern, where it stands unescaped:
\* a character followed by + is repeated, any other character is itself (for
\* categories made of letters, digits, blanks, - and + after a character)
RECURSIVE CategoryItems(_, _)
CategoryItems(category, i) ==
    IF i > Len(category) THEN <<>>
    ELSE IF i < Len(category) /\ category[i + 1] = "+"
    THEN <<Rep(category[i], 1)>> \o CategoryItems(category, i + 2)
    ELSE LET repeated == {m \in i..(Len(category) - 1) : category[m + 1] = "+"}
             j == IF repeated = {} THEN Len(category) + 1
                  ELSE CHOOSE m \in repeated : \A n \in repeated : m <= n
         IN <<Lit(SubSeq(category, i, j - 1))>> \o CategoryItems(category, j)

\* the three patterns of find_section, matched with re.IGNORECASE
SectionPatterns(category) ==
    << <<Lit(W_hash), DotStar>> \o CategoryItems(Lower(category), 1)
           \o <<DotStar, Lit(W_keybind)>>,
       <<Lit(W_hash), DotStar>> \o CategoryItems(Lower(category), 1)
           \o <<DotStar, Lit(W_bind)>>,
       <<Lit(W_hash), DotStar>> \o CategoryItems(Lower(category), 1) >>

\* find_section: the 0-based index of the first line a pattern finds, -1 for None
find_section(content, category) ==
    LET lines == splitlines(content)
        hits == UNION {{i \in 1..Len(lines) :
                           \E p \in 1..3 : re_search(patterns[p], Lower(lines[i]))} :
                       patterns \in {SectionPatterns(category)}}
    IN IF hits = {} THEN -1
       ELSE (CHOOSE i \in hits : \A j \in hits : i <= j) - 1

\* ExistsPattern with both copy modes looked up as copy-mode
ExistsPattern_one_copy_mode(keybind, mode) ==
    CASE mode = ROOT ->
           <<Bol, WsStar, Lit(W_bind), Opt(W_dash_key), WsPlus, Lit(W_dash_n), WsPlus,
             Lit(keybind), WsPlus>>
      [] mode \in {COPY_MODE, COPY_MODE_VI} ->
           <<Bol, WsStar, Lit(W_bind), Opt(W_dash_key), WsPlus, Lit(W_dash_T), WsPlus,
             Lit(ModeValue(COPY_MODE)), WsPlus, Lit(keybind), WsPlus>>
      [] OTHER ->
           <<Bol, WsStar, Lit(W_bind), Opt(W_dash_key), WsPlus, Lit(keybind), WsPlus>>

\* the pattern of _binding_exists
ExistsPattern(keybind, mode) ==
    CASE mode = ROOT ->
           <<Bol, WsStar, Lit(W_bind), Opt(W_dash_key), WsPlus, Lit(W_dash_n), WsPlus,
             Lit(keybind), WsPlus>>
      [] mode \in {COPY_MODE, COPY_MODE_VI} ->
           <<Bol, WsStar, Lit(W_bind), Opt(W_dash_key), WsPlus, Lit(W_dash_T), WsPlus,
             Lit(ModeValue(mode)), WsPlus, Lit(keybind), WsPlus>>
      [] OTHER ->
           <<Bol, WsStar, Lit(W_bind), Opt(W_dash_key), WsPlus, Lit(keybind), WsPlus>>

_binding_exists(content, keybind, mode) == re_search(ExistsPattern(keybind, mode), content)

\* the outcome of an operation that returns (success, message)
Outcome(cfg, bks, ok, msg) == [config |-> cfg, backups |-> bks, ok |-> ok, msg |-> msg]

\* IsOtherSection with every line that starts with "# " ending the section
IsOtherSection_any_comment(line, category) == StartsWith(line, <<"#", SP>>)

\* lines[i].startswith("# ") and not lines[i].startswith("# " + category[0])
IsOtherSection(line, category) ==
    /\ StartsWith(line, <<"#", SP>>)
    /\ ~StartsWith(line, <<"#", SP, category[1]>>)

add_keybinding(cfg, bks, t, keybind, command, description, mode, category, create_backup) ==
    LET cfg1 == IF ~cfg.exists THEN File(NewConfigText) ELSE cfg
        bks1 == IF create_backup THEN backup_config(cfg1, bks, t).backups ELSE bks
        content == read_text(cfg1.data)
    IN
    IF _binding_exists(content, keybind, mode)
    THEN Outcome(cfg1, bks1, FALSE, <<"Binding for ", keybind, " already exists">>)
    ELSE
      LET formatted == format_binding(keybind, command, description, mode)
          lines == splitlines(content)
          section_line == IF category # <<>> THEN find_section(content, category) ELSE -1
          \* 0-based indices i of range(section_line + 1, len(lines)) that end the section
          ends == IF category # <<>> /\ section_line # -1
                  THEN {i \in (section_line + 1)..(Len(lines) - 1) :
                            IsOtherSection(lines[i + 1], category)}
                  ELSE {}
          insert_at == IF ends # {} THEN CHOOSE i \in ends : \A j \in ends : i <= j
                       ELSE Len(lines)
          new_binding == IF category # <<>> /\ section_line = -1
                         THEN <<NL, "#", SP>> \o Title(category) \o W_keybindings
                                \o <<NL>> \o formatted
                         ELSE formatted
          written == Join(<<NL>>, InsertAt(lines, insert_at, new_binding))
          msg == <<"Added binding: ", keybind, " -> ", command>>
                   \o (IF create_backup THEN <<" (backup: ", t, ")">> ELSE <<>>)
      IN Outcome(File(written), bks1, TRUE, msg)

\* the pattern remove_keybinding deletes the matches of
RemovePattern(keybind, mode) ==
    CASE mode = ROOT ->
           <<Bol, DotStar, Lit(W_bind), Opt(W_dash_key), WsPlus, Lit(W_dash_n), WsPlus,
             Lit(keybind), WsPlus, DotStar, Eol>>
      [] mode \in {COPY_MODE, COPY_MODE_VI} ->
           <<Bol, DotStar, Lit(W_bind), Opt(W_dash_key), WsPlus, Lit(W_dash_T), WsPlus,
             Lit(ModeValue(mode)), WsPlus, Lit(keybind), WsPlus, DotStar, Eol>>
      [] OTHER ->
           <<Bol, DotStar, Lit(W_bind), Opt(W_dash_key), WsPlus, Lit(keybind), WsPlus,
             DotStar, Eol>>

\* re.sub(r"\n{3,}", "\n\n", s)
RECURSIVE CollapseBlankLines(_, _)
CollapseBlankLines(s, i) ==
    IF i > Len(s) THEN <<>>
    ELSE IF s[i] # NL THEN <<s[i]>> \o CollapseBlankLines(s, i + 1)
    ELSE LET n == MaxRun(s, i, "nl")
         IN (IF n >= 3 THEN <<NL, NL>> ELSE SubSeq(s, i, i + n - 1))
              \o CollapseBlankLines(s, i + n)

\* remove_keybinding deleting a config it leaves without text
remove_keybinding_unlink(cfg, bks, t, keybind, mode, create_backup) ==
    IF ~cfg.exists THEN Outcome(cfg, bks, FALSE, <<"Config file not found">>)
    ELSE
      LET bks1 == IF create_backup THEN backup_config(cfg, bks, t).backups ELSE bks
          content == read_text(cfg.data)
          sub == re_subn(RemovePattern(keybind, mode), content)
          new_content == CollapseBlankLines(sub.out, 1)
      IN IF sub.count = 0
         THEN Outcome(cfg, bks1, FALSE, <<"Binding for ", keybind, " not found">>)
         ELSE Outcome(IF \A i \in 1..Len(new_content) : IsSpace(new_content[i])
                      THEN NoFile ELSE File(new_content),
                      bks1, TRUE, <<"Removed binding for ", keybind>>)

remove_keybinding(cfg, bks, t, keybind, mode, create_backup) ==
    IF ~cfg.exists THEN Outcome(cfg, bks, FALSE, <<"Config file not found">>)
    ELSE
      LET bks1 == IF create_backup THEN backup_config(cfg, bks, t).backups ELSE bks
          content == read_text(cfg.data)
          sub == re_subn(RemovePattern(keybind, mode), content)
      IN IF sub.count = 0
         THEN Outcome(cfg, bks1, FALSE, <<"Binding for ", keybind, " not found">>)
         ELSE Outcome(File(CollapseBlankLines(sub.out, 1)), bks1, TRUE,
                      <<"Removed binding for ", keybind>>)

\* AddEach leaving the loop at the first item that fails
RECURSIVE AddEach_stop_on_failure(_, _, _, _, _)
AddEach_stop_on_failure(cfg, bks, t, bindings, i) ==
    IF i > Len(bindings) THEN [config |-> cfg, backups |-> bks, results |-> <<>>]
    ELSE LET b == bindings[i]
             r == add_keybinding(cfg, bks, t, b.keybind, b.command, b.description,
                                 b.mode, b.category, FALSE)
             rest == IF r.ok THEN AddEach_stop_on_failure(r.config, r.backups, t, bindings, i + 1)
                     ELSE [config |-> r.config, backups |-> r.backups, results |-> <<>>]
         IN [config |-> rest.config, backups |-> rest.backups,
             results |-> << <<b.keybind, r.ok, r.msg>> >> \o rest.results]

\* the loop of add_multiple_keybindings over bindings[i..], from the files
\* (cfg, bks): [config, backups, results]
RECURSIVE AddEach(_, _, _, _, _)
AddEach(cfg, bks, t, bindings, i) ==
    IF i > Len(bindings) THEN [config |-> cfg, backups |-> bks, results |-> <<>>]
    ELSE LET b == bindings[i]
             r == add_keybinding(cfg, bks, t, b.keybind, b.command, b.description,
                                 b.mode, b.category, FALSE)
             rest == AddEach(r.config, r.backups, t, bindings, i + 1)
         IN [config |-> rest.config, backups |-> rest.backups,
             results |-> << <<b.keybind, r.ok, r.msg>> >> \o rest.results]

add_multiple_keybindings(cfg, bks, t, bindings, create_backup) ==
    LET bks1 == IF create_backup /\ cfg.exists THEN backup_config(cfg, bks, t).backups
                ELSE bks
    IN AddEach(cfg, bks1, t, bindings, 1)

(***************************************************************************)
(* src/scripts/overlay/keybind_parser.py: get_expected_key.                *)
(***************************************************************************)
\* str.strip()
RECURSIVE LStrip(_), RStrip(_)
LStrip(s) == IF s # <<>> /\ IsSpace(Head(s)) THEN LStrip(Tail(s)) ELSE s
RStrip(s) == IF s # <<>> /\ IsSpace(s[Len(s)]) THEN RStrip(SubSeq(s, 1, Len(s) - 1)) ELSE s
Strip(s) == RStrip(LStrip(s))

P_meta == <<"M", "-">>
P_ctrl == <<"C", "-">>
P_shift == <<"S", "-">>

\* StripPrefix that goes on stripping while a prefix is left
RECURSIVE StripPrefix_repeated(_)
StripPrefix_repeated(result) ==
    LET rest == StripPrefix_repeated(SubSeq(result, 3, Len(result)))
    IN IF StartsWith(result, P_meta)
       THEN [modifiers |-> {"alt"} \cup rest.modifiers, result |-> rest.result]
       ELSE IF StartsWith(result, P_ctrl)
       THEN [modifiers |-> {"ctrl"} \cup rest.modifiers, result |-> rest.result]
       ELSE IF StartsWith(result, P_shift)
       THEN [modifiers |-> {"shift"} \cup rest.modifiers, result |-> rest.result]
       ELSE [modifiers |-> {}, result |-> result]

\* the if / elif chain over the prefixes M-, C-, S-: [modifiers, result]
StripPrefix(result) ==
    IF StartsWith(result, P_meta)
    THEN [modifiers |-> {"alt"}, result |-> SubSeq(result, 3, Len(result))]
    ELSE IF StartsWith(result, P_ctrl)
    THEN [modifiers |-> {"ctrl"}, result |-> SubSeq(result, 3, Len(result))]
    ELSE IF StartsWith(result, P_shift)
    THEN [modifiers |-> {"shift"}, result |-> SubSeq(result, 3, Len(result))]
    ELSE [modifiers |-> {}, result |-> result]

N_Space == <<"S", "p", "a", "c", "e">>
N_Enter == <<"E", "n", "t", "e", "r">>
N_Tab == <<"T", "a", "b">>
N_BSpace == <<"B", "S", "p", "a", "c", "e">>
N_Escape == <<"E", "s", "c", "a", "p", "e">>
N_Up == <<"U", "p">>
N_Down == <<"D", "o", "w", "n">>
N_Left == <<"L", "e", "f", "t">>
N_Right == <<"R", "i", "g", "h", "t">>

\* key_map: the special key names and their pynput names
KeyMapNames == {N_Space, N_Enter, N_Tab, N_BSpace, N_Escape, N_Up, N_Down, N_Left, N_Right}
key_map(name) == IF name = N_BSpace THEN <<"b", "a", "c", "k", "s", "p", "a", "c", "e">> ELSE Lower(name)

\* the grave accent, the base key of "~" (written out: the character itself
\* opens a quotation inside a TLA+ string)
GRAVE == "grave"

\* shifted_symbols: <<symbol, base key>>, needs_shift being True in every entry
shifted_symbols ==
    << <<"{", "[">>, <<"}", "]">>, <<"<", ",">>, <<">", ".">>, <<"|", "\\">>,
       <<"!", "1">>, <<"@", "2">>, <<"#", "3">>, <<"$", "4">>, <<"%", "5">>,
       <<"^", "6">>, <<"&", "7">>, <<"*", "8">>, <<"(", "9">>, <<")", "0">>,
       <<"_", "-">>, <<"+", "=">>, <<"~", GRAVE>>, <<":", ";">>, <<"\"", "'">>,
       <<"?", "/">> >>
IsShiftedSymbol(result) ==
    Len(result) = 1 /\ \E i \in 1..Len(shifted_symbols) : shifted_symbols[i][1] = result[1]

ExpectedKey(modifiers, key) == [called |-> TRUE, modifiers |-> modifiers, key |-> key]
NotCalled == [called |-> FALSE, modifiers |-> {}, key |-> <<>>]

\* MatchKey with the branch for uppercase letters left out
MatchKey_no_upper_shift(modifiers, result) ==
    IF result \in KeyMapNames THEN ExpectedKey(modifiers, key_map(result))
    ELSE IF IsShiftedSymbol(result) THEN ExpectedKey(modifiers \cup {"shift"}, Lower(result))
    ELSE ExpectedKey(modifiers, Lower(result))

\* MatchKey with the branch for shifted symbols left out
MatchKey_no_symbol_shift(modifiers, result) ==
    IF result \in KeyMapNames THEN ExpectedKey(modifiers, key_map(result))
    ELSE IF Len(result) = 1 /\ IsUpperChar(result[1])
    THEN ExpectedKey(modifiers \cup {"shift"}, Lower(result))
    ELSE ExpectedKey(modifiers, Lower(result))

\* the returns of get_expected_key once the prefix is stripped
MatchKey(modifiers, result) ==
    IF result \in KeyMapNames THEN ExpectedKey(modifiers, key_map(result))
    ELSE IF Len(result) = 1 /\ IsUpperChar(result[1])
    THEN ExpectedKey(modifiers \cup {"shift"}, Lower(result))
    ELSE IF IsShiftedSymbol(result)
    THEN ExpectedKey(modifiers \cup {"shift"}, Lower(result))
    ELSE ExpectedKey(modifiers, Lower(result))

get_expected_key(keybind) ==
    LET p == StripPrefix(Strip(keybind))
    IN MatchKey(p.modifiers, p.result)

(***************************************************************************)
(* src/scripts/overlay/keybind_parser.py: parse_keybind.                   *)
(***************************************************************************)
N_PageUp == <<"P", "a", "g", "e", "U", "p">>
N_PageDown == <<"P", "a", "g", "e", "D", "o", "w", "n">>
N_Home == <<"H", "o", "m", "e">>
N_End == <<"E", "n", "d">>
FunctionKeyNames ==
    {<<"F", d>> : d \in {"1", "2", "3", "4", "5", "6", "7", "8", "9"}}
      \cup {<<"F", "1", d>> : d \in {"0", "1", "2"}}

\* special_keys: the names and what is displayed for them
SpecialKeyNames ==
    {N_Space, N_Enter, N_Tab, N_BSpace, N_Escape, N_Up, N_Down, N_Left, N_Right,
     N_Home, N_End, N_PageUp, N_PageDown} \cup FunctionKeyNames
special_keys(name) ==
    IF name = N_BSpace THEN <<"B", "a", "c", "k", "s", "p", "a", "c", "e">>
    ELSE IF name = N_PageUp THEN <<"P", "a", "g", "e", " ", "U", "p">>
    ELSE IF name = N_PageDown THEN <<"P", "a", "g", "e", " ", "D", "o", "w", "n">>
    ELSE name

L_Alt == <<"A", "l", "t">>
L_Option == <<"O", "p", "t", "i", "o", "n">>
L_Ctrl == <<"C", "t", "r", "l">>
L_Shift == <<"S", "h", "i", "f", "t">>
PLUS == <<" ", "+", " ">>

\* the if / elif chain of parse_keybind over the prefixes: [parts, result]
DisplayPrefix(result, macos) ==
    IF StartsWith(result, P_meta)
    THEN [parts |-> <<IF macos THEN L_Option ELSE L_Alt>>, result |-> SubSeq(result, 3, Len(result))]
    ELSE IF StartsWith(result, P_ctrl)
    THEN [parts |-> <<L_Ctrl>>, result |-> SubSeq(result, 3, Len(result))]
    ELSE IF StartsWith(result, P_shift)
    THEN [parts |-> <<L_Shift>>, result |-> SubSeq(result, 3, Len(result))]
    ELSE [parts |-> <<>>, result |-> result]

\* parse_keybind, IS_MACOS being macos
parse_keybind(keybind, macos) ==
    LET p == DisplayPrefix(Strip(keybind), macos)
        shown == IF p.result \in SpecialKeyNames THEN special_keys(p.result) ELSE p.result
    IN [called |-> TRUE, macos |-> macos, text |-> Join(PLUS, Append(p.parts, shown))]

(***************************************************************************)
(* src/scripts/overlay/sequence.py: SequenceController.  steps holds the   *)
(* keybind of each KeybindStep; started tells whether main has called      *)
(* start().  A timer is a QTimer.singleShot not yet fired.                 *)
(***************************************************************************)
ESCAPE == <<"e", "s", "c", "a", "p", "e">>

\* __init__
SequenceController(steps) ==
    [steps |-> steps, started |-> FALSE, current_index |-> 0, completed |-> FALSE,
     escaped |-> FALSE, expected_modifiers |-> {}, expected_key |-> <<>>]

Timer(callback, msec) == [callback |-> callback, msec |-> msec]

\* _show_current: self.steps[self.current_index] raises IndexError past the
\* last step, before anything is assigned
_show_current(c) ==
    IF c.current_index >= Len(c.steps) THEN c
    ELSE LET e == get_expected_key(c.steps[c.current_index + 1])
         IN [c EXCEPT !.expected_modifiers = e.modifiers, !.expected_key = e.key]

\* the comparison of _on_key with a subset test on the modifiers
Matches_subset(key, modifiers, c) ==
    key = c.expected_key /\ c.expected_modifiers \subseteq modifiers

\* the comparison of _on_key
Matches(key, modifiers, c) ==
    key = c.expected_key /\ modifiers = c.expected_modifiers

\* _on_correct: [controller, timers, window]
_on_correct(c, ts, w) ==
    LET c1 == [c EXCEPT !.current_index = @ + 1]
    IN IF c1.current_index >= Len(c1.steps)
       THEN [controller |-> [c1 EXCEPT !.completed = TRUE],
             timers |-> Append(ts, Timer("close_overlay", 300)), window |-> w]
       ELSE [controller |-> c1,
             timers |-> Append(ts, Timer("_show_current", 300)), window |-> w]

\* _on_escape: close_overlay closes the window at once
_on_escape(c, ts, w) ==
    [controller |-> [c EXCEPT !.escaped = TRUE], timers |-> ts,
     window |-> [w EXCEPT !.closed = TRUE]]

\* _on_wrong
_on_wrong(c, ts, w) ==
    [controller |-> c, timers |-> Append(ts, Timer("_show_current", 150)), window |-> w]

\* _on_key
_on_key(key, modifiers, c, ts, w) ==
    IF key = ESCAPE THEN _on_escape(c, ts, w)
    ELSE IF Matches(key, modifiers, c) THEN _on_correct(c, ts, w)
    ELSE _on_wrong(c, ts, w)

\* start: [controller, window]
start(c, w) ==
    IF c.steps = <<>>
    THEN [controller |-> [c EXCEPT !.started = TRUE, !.completed = TRUE],
          window |-> [w EXCEPT !.closed = TRUE]]
    ELSE [controller |-> _show_current([c EXCEPT !.started = TRUE]), window |-> w]

\* the exit code main returns once the event loop has ended
main_return(c) == IF c.completed THEN 0 ELSE IF c.escaped THEN 1 ELSE 2

\* timers fire in the order of their deadlines: the timer at j can be the next
\* to fire unless a timer set before it has a delay that is no longer
CanFire(ts, j) == \A i \in 1..(j - 1) : ts[i].msec > ts[j].msec
RemoveAt(ts, j) == SubSeq(ts, 1, j - 1) \o SubSeq(ts, j + 1, Len(ts))

(***************************************************************************)
(* src/src/config/models.py: KeyModifier, Keybinding.                      *)
(* src/src/config/parser.py: _parse_key_with_modifiers, _parse_bind_line.  *)
(***************************************************************************)
\* KeyModifier: the values of the enum
CTRL == "C"
META == "M"
SHIFT == "S"
NONE == ""

\* a Keybinding, and the None that _parse_bind_line returns instead of one
Keybinding(key, modifiers, command, mode, raw_line) ==
    [called |-> TRUE, none |-> FALSE, key |-> key, modifiers |-> modifiers,
     command |-> command, mode |-> mode, raw_line |-> raw_line]
None == [called |-> TRUE, none |-> TRUE, key |-> <<>>, modifiers |-> <<>>,
         command |-> <<>>, mode |-> PREFIX, raw_line |-> <<>>]

\* Keybinding.key_combo
key_combo(kb) ==
    IF kb.modifiers = <<>> \/ kb.modifiers = <<NONE>>
    THEN kb.key
    ELSE LET mods == SelectSeq(kb.modifiers, LAMBDA m : m # NONE)
         IN Join(<<"-">>, [i \in 1..Len(mods) |-> <<mods[i]>>]) \o <<"-">> \o kb.key

\* StripModifiers leaving the loop after the first prefix
StripModifiers_once(key, modifiers) ==
    IF /\ Len(key) >= 3
       /\ key[1] \in {"C", "M", "S"}
       /\ key[2] = "-"
       /\ \A i \in 3..Len(key) : key[i] # NL
    THEN [key |-> SubSeq(key, 3, Len(key)), modifiers |-> Append(modifiers, key[1])]
    ELSE [key |-> key, modifiers |-> modifiers]

\* the while loop of _parse_key_with_modifiers over ^([CMS])-(.+)$
RECURSIVE StripModifiers(_, _)
StripModifiers(key, modifiers) ==
    IF /\ Len(key) >= 3
       /\ key[1] \in {"C", "M", "S"}
       /\ key[2] = "-"
       /\ \A i \in 3..Len(key) : key[i] # NL
    THEN StripModifiers(SubSeq(key, 3, Len(key)), Append(modifiers, key[1]))
    ELSE [key |-> key, modifiers |-> modifiers]

_parse_key_with_modifiers(key_str) ==
    LET r == StripModifiers(key_str, <<>>)
    IN [key |-> r.key, modifiers |-> IF r.modifiers # <<>> THEN r.modifiers ELSE <<NONE>>]

W_bind_key == W_bind \o W_dash_key
W_copy_mode == <<"c", "o", "p", "y", "-", "m", "o", "d", "e">>
W_copy_mode_vi == <<"c", "o", "p", "y", "-", "m", "o", "d", "e", "-", "v", "i">>
W_root == <<"r", "o", "o", "t">>
QUOTE == "\""
APOSTROPHE == "'"

\* the length of the run of characters at s[i..] that are (ws = TRUE) or are
\* not (ws = FALSE) white space
RECURSIVE Run(_, _, _)
Run(s, i, ws) ==
    IF i <= Len(s) /\ IsSpace(s[i]) = ws THEN 1 + Run(s, i + 1, ws) ELSE 0

\* s without its first n characters
Drop(s, n) == SubSeq(s, n + 1, Len(s))

\* str.find(c, start) with a 0-based start, as a 1-based position, 0 for -1
RECURSIVE FindFrom(_, _, _)
FindFrom(s, c, i) ==
    IF i > Len(s) THEN 0 ELSE IF s[i] = c THEN i ELSE FindFrom(s, c, i + 1)

\* ^(?:bind-key|bind)\s+(.+)$ : group 1, or <<>> when the line does not match
BindArgs(ln) ==
    LET word == IF StartsWith(ln, W_bind_key) /\ Run(ln, Len(W_bind_key) + 1, TRUE) > 0
                THEN W_bind_key
                ELSE IF StartsWith(ln, W_bind) /\ Run(ln, Len(W_bind) + 1, TRUE) > 0
                THEN W_bind
                ELSE <<>>
        args == Drop(ln, Len(word) + Run(ln, Len(word) + 1, TRUE))
    IN IF word = <<>> \/ \E i \in 1..Len(args) : args[i] = NL THEN <<>> ELSE args

\* the check for -n: [mode, remaining]
FlagN(remaining) ==
    IF StartsWith(remaining, W_dash_n) /\ Run(remaining, 3, TRUE) > 0
    THEN [mode |-> ROOT, remaining |-> Drop(remaining, 2 + Run(remaining, 3, TRUE))]
    ELSE [mode |-> PREFIX, remaining |-> remaining]

\* FlagT that leaves the mode of a line with -n alone
FlagT_after_n_ignored(mode, remaining) ==
    IF mode = ROOT
    THEN [mode |-> ROOT, remaining |-> remaining]
    ELSE LET ws1 == Run(remaining, 3, TRUE)
             name == Run(remaining, 3 + ws1, FALSE)
             ws2 == Run(remaining, 3 + ws1 + name, TRUE)
             mode_name == SubSeq(remaining, 3 + ws1, 2 + ws1 + name)
         IN IF StartsWith(remaining, W_dash_T) /\ ws1 > 0 /\ name > 0 /\ ws2 > 0
            THEN [mode |-> IF mode_name = W_copy_mode THEN COPY_MODE
                           ELSE IF mode_name = W_copy_mode_vi THEN COPY_MODE_VI
                           ELSE IF mode_name = W_root THEN ROOT
                           ELSE mode,
                  remaining |-> Drop(remaining, 2 + ws1 + name + ws2)]
            ELSE [mode |-> mode, remaining |-> remaining]

\* the check for -T <mode-name>: [mode, remaining]
FlagT(mode, remaining) ==
    LET ws1 == Run(remaining, 3, TRUE)
        name == Run(remaining, 3 + ws1, FALSE)
        ws2 == Run(remaining, 3 + ws1 + name, TRUE)
        mode_name == SubSeq(remaining, 3 + ws1, 2 + ws1 + name)
    IN IF StartsWith(remaining, W_dash_T) /\ ws1 > 0 /\ name > 0 /\ ws2 > 0
       THEN [mode |-> IF mode_name = W_copy_mode THEN COPY_MODE
                      ELSE IF mode_name = W_copy_mode_vi THEN COPY_MODE_VI
                      ELSE IF mode_name = W_root THEN ROOT
                      ELSE mode,
             remaining |-> Drop(remaining, 2 + ws1 + name + ws2)]
       ELSE [mode |-> mode, remaining |-> remaining]

\* the key and the command of what is left after the flags: [ok, key_str, command]
KeyAndCommand(remaining) ==
    IF remaining # <<>> /\ remaining[1] \in {QUOTE, APOSTROPHE}
    THEN LET end_quote == FindFrom(remaining, remaining[1], 2)
         IN IF end_quote = 0
            THEN [ok |-> FALSE, key_str |-> <<>>, command |-> <<>>]
            ELSE [ok |-> TRUE, key_str |-> SubSeq(remaining, 2, end_quote - 1),
                  command |-> Strip(Drop(remaining, end_quote))]
    ELSE LET first == Run(remaining, 1, FALSE)
             gap == Run(remaining, first + 1, TRUE)
             rest == Drop(remaining, first + gap)
         IN IF rest = <<>>
            THEN [ok |-> FALSE, key_str |-> <<>>, command |-> <<>>]
            ELSE [ok |-> TRUE, key_str |-> SubSeq(remaining, 1, first), command |-> rest]

_parse_bind_line(raw) ==
    LET ln == Strip(raw)
        args == BindArgs(ln)
        n == FlagN(args)
        t == FlagT(n.mode, n.remaining)
        kc == KeyAndCommand(t.remaining)
        km == _parse_key_with_modifiers(kc.key_str)
    IN IF ln = <<>> \/ StartsWith(ln, W_hash) THEN None
       ELSE IF args = <<>> THEN None
       ELSE IF ~kc.ok THEN None
       ELSE Keybinding(km.key, km.modifiers, kc.command, t.mode, ln)

(***************************************************************************)
(* src/src/config/parser.py: _parse_set_option, _detect_user_style,        *)
(* parse_tmux_config.  src/src/config/models.py: Keybinding.is_navigation. *)
(***************************************************************************)
\* w in s, for strings
Contains(s, w) == \E i \in 1..(Len(s) - Len(w) + 1) : StartsWithAt(s, i, w)

nav_commands ==
    {<<"s", "e", "l", "e", "c", "t", "-", "p", "a", "n", "e">>,
     <<"s", "e", "l", "e", "c", "t", "-", "w", "i", "n", "d", "o", "w">>,
     <<"n", "e", "x", "t", "-", "w", "i", "n", "d", "o", "w">>,
     <<"p", "r", "e", "v", "i", "o", "u", "s", "-", "w", "i", "n", "d", "o", "w">>,
     <<"l", "a", "s", "t", "-", "w", "i", "n", "d", "o", "w">>,
     <<"s", "w", "i", "t", "c", "h", "-", "c", "l", "i", "e", "n", "t">>}

\* Keybinding.is_navigation
is_navigation(kb) == \E cmd \in nav_commands : Contains(kb.command, cmd)

\* the words of set_pattern, in the order of the alternation
SetWords ==
    <<<<"s", "e", "t", "-", "o", "p", "t", "i", "o", "n">>,
      <<"s", "e", "t">>,
      <<"s", "e", "t", "w">>,
      <<"s", "e", "t", "-", "w", "i", "n", "d", "o", "w", "-", "o", "p", "t", "i", "o", "n">>>>
W_dash_g == <<"-", "g">>
W_prefix == <<"p", "r", "e", "f", "i", "x">>
W_C_b == <<"C", "-", "b">>

\* (\S+)\s+(.+)$ at the start of s: [ok, name, value]
NameAndValue(s) ==
    LET name == Run(s, 1, FALSE)
        gap == Run(s, name + 1, TRUE)
        value == Drop(s, name + gap)
    IN IF name > 0 /\ gap > 0 /\ value # <<>> /\ \A i \in 1..Len(value) : value[i] # NL
       THEN [ok |-> TRUE, name |-> SubSeq(s, 1, name), value |-> value]
       ELSE [ok |-> FALSE, name |-> <<>>, value |-> <<>>]

\* str.strip("'\"")
RECURSIVE StripQuotes(_)
StripQuotes(s) ==
    IF s # <<>> /\ s[1] \in {QUOTE, APOSTROPHE} THEN StripQuotes(Tail(s))
    ELSE IF s # <<>> /\ s[Len(s)] \in {QUOTE, APOSTROPHE}
    THEN StripQuotes(SubSeq(s, 1, Len(s) - 1))
    ELSE s

\* _parse_set_option: [none, name, value]
_parse_set_option(raw) ==
    LET ln == Strip(raw)
        heads == {i \in 1..Len(SetWords) :
                    StartsWith(ln, SetWords[i]) /\ Run(ln, Len(SetWords[i]) + 1, TRUE) > 0}
        word == SetWords[CHOOSE i \in heads : \A j \in heads : i <= j]
        rest == Drop(ln, Len(word) + Run(ln, Len(word) + 1, TRUE))
        with_g == IF StartsWith(rest, W_dash_g) /\ Run(rest, 3, TRUE) > 0
                  THEN NameAndValue(Drop(rest, 2 + Run(rest, 3, TRUE)))
                  ELSE [ok |-> FALSE, name |-> <<>>, value |-> <<>>]
        m == IF with_g.ok THEN with_g ELSE NameAndValue(rest)
    IN IF ln = <<>> \/ StartsWith(ln, W_hash) \/ heads = {} \/ ~m.ok
       THEN [none |-> TRUE, name |-> <<>>, value |-> <<>>]
       ELSE [none |-> FALSE, name |-> m.name, value |-> StripQuotes(m.value)]

\* SetItem that keeps the first value written under a name
SetItem_first_wins(options, name, value) ==
    IF \E i \in 1..Len(options) : options[i][1] = name
    THEN options
    ELSE Append(options, <<name, value>>)

\* options[name] = value on a dict kept as a sequence of <<name, value>>
SetItem(options, name, value) ==
    IF \E i \in 1..Len(options) : options[i][1] = name
    THEN [i \in 1..Len(options) |->
            IF options[i][1] = name THEN <<name, value>> ELSE options[i]]
    ELSE Append(options, <<name, value>>)

\* "prefix" in options, and options["prefix"]
HasItem(options, name) == \E i \in 1..Len(options) : options[i][1] = name
GetItem(options, name) == options[CHOOSE i \in 1..Len(options) : options[i][1] = name][2]

vim_keys == {<<"h">>, <<"j">>, <<"k">>, <<"l">>}
arrow_keys == {<<"L", "e", "f", "t">>, <<"R", "i", "g", "h", "t">>, <<"U", "p">>, <<"D", "o", "w", "n">>}

\* sum(1 for kb in keybindings if P(kb))
Count(keybindings, P(_)) == Cardinality({i \in 1..Len(keybindings) : P(keybindings[i])})

HasModifier(kb, m) == \E i \in 1..Len(kb.modifiers) : kb.modifiers[i] = m

\* style.prefers_meta with root_count >= len(keybindings) // 3
prefers_meta_at_least(keybindings) ==
    LET meta_count == Count(keybindings, LAMBDA kb : HasModifier(kb, META))
        ctrl_count == Count(keybindings, LAMBDA kb : HasModifier(kb, CTRL))
        root_count == Count(keybindings, LAMBDA kb : kb.mode = ROOT)
    IN meta_count > ctrl_count \/ root_count >= Len(keybindings) \div 3

\* style.prefers_meta
prefers_meta(keybindings) ==
    LET meta_count == Count(keybindings, LAMBDA kb : HasModifier(kb, META))
        ctrl_count == Count(keybindings, LAMBDA kb : HasModifier(kb, CTRL))
        root_count == Count(keybindings, LAMBDA kb : kb.mode = ROOT)
    IN meta_count > ctrl_count \/ root_count > Len(keybindings) \div 3

\* uses_keys over all bindings instead of the navigation bindings
uses_keys_of_any_binding(keybindings, keys) ==
    \E i \in 1..Len(keybindings) : keybindings[i].key \in keys

\* nav_keys & vim_keys, nav_keys & arrow_keys
uses_keys(keybindings, keys) ==
    \E i \in 1..Len(keybindings) : is_navigation(keybindings[i]) /\ keybindings[i].key \in keys

\* style.navigation_pattern, "" for None
navigation_pattern(keybindings) ==
    LET meta_vim == Count(keybindings, LAMBDA kb :
                        is_navigation(kb) /\ kb.key \in vim_keys /\ HasModifier(kb, META))
        root_vim == Count(keybindings, LAMBDA kb :
                        is_navigation(kb) /\ kb.key \in vim_keys /\ kb.mode = ROOT)
    IN IF ~uses_keys(keybindings, vim_keys) THEN ""
       ELSE IF meta_vim >= 3 THEN "M-hjkl"
       ELSE IF root_vim >= 3 THEN "hjkl (root)"
       ELSE ""

\* the TmuxConfig of parse_tmux_config, with the fields of its UserStyle;
\* prefers_ctrl keeps the default of UserStyle, _detect_user_style never
\* assigns it
TmuxConfig(keybindings, options) ==
    [called |-> TRUE, keybindings |-> keybindings, raw_options |-> options,
     prefix_key |-> IF HasItem(options, W_prefix) THEN GetItem(options, W_prefix) ELSE W_C_b,
     uses_vim_keys |-> uses_keys(keybindings, vim_keys),
     uses_arrow_keys |-> uses_keys(keybindings, arrow_keys),
     prefers_meta |-> prefers_meta(keybindings),
     prefers_ctrl |-> FALSE,
     navigation_pattern |-> navigation_pattern(keybindings)]

\* the loop of parse_tmux_config over content.splitlines(): [keybindings, options]
RECURSIVE ParseLines(_, _, _, _)
ParseLines(lines, i, keybindings, options) ==
    IF i > Len(lines) THEN [keybindings |-> keybindings, options |-> options]
    ELSE LET kb == _parse_bind_line(lines[i])
             opt == _parse_set_option(lines[i])
         IN IF ~kb.none THEN ParseLines(lines, i + 1, Append(keybindings, kb), options)
            ELSE IF ~opt.none
            THEN ParseLines(lines, i + 1, keybindings, SetItem(options, opt.name, opt.value))
            ELSE ParseLines(lines, i + 1, keybindings, options)

parse_tmux_config(cfg) ==
    LET r == IF cfg.exists THEN ParseLines(splitlines(read_text(cfg.data)), 1, <<>>, <<>>)
             ELSE [keybindings |-> <<>>, options |-> <<>>]
    IN TmuxConfig(r.keybindings, r.options)

\* TmuxConfig.has_binding (src/src/config/models.py)
has_binding(cfg, combo, mode) ==
    \E i \in 1..Len(cfg.keybindings) :
        key_combo(cfg.keybindings[i]) = combo /\ cfg.keybindings[i].mode = mode

(***************************************************************************)
(* The inputs the operations are called with.                              *)
(***************************************************************************)
K_x == <<"x">>
K_dash_n == W_dash_n
Keys == {K_x, K_dash_n}
Command == <<"c">>
Cat_nav == <<"n", "a", "v">>
\* (description, category) pairs: neither, or the description "d" and the category "nav"
AddOptions == {[description |-> <<>>, category |-> <<>>],
               [description |-> <<"d">>, category |-> Cat_nav]}

Binding(keybind, mode) ==
    [keybind |-> keybind, command |-> Command, description |-> <<>>,
     mode |-> mode, category |-> <<>>]
\* the items of the lists BatchSpec hands to add_multiple_keybindings
BatchItems == {Binding(K_x, PREFIX), Binding(K_x, ROOT), Binding(K_dash_n, PREFIX)}
\* the list Spec hands to add_multiple_keybindings
LifeBatch == <<Binding(K_x, PREFIX), Binding(K_x, ROOT)>>

\* the sequences over S of length at most n
SeqsUpTo(S, n) == UNION {[1..k -> S] : k \in 0..n}

\* a text file holding the given lines, each ended by a newline
TextOf(lines) == Concat([i \in 1..Len(lines) |-> lines[i] \o <<NL>>])

L_bind_x == <<"b", "i", "n", "d", " ", "x", " ", "c">>
L_bind_n_x == <<"b", "i", "n", "d", " ", "-", "n", " ", "x", " ", "c">>
L_nav == <<"#", " ", "n", "a", "v">>
L_comment_bind_x == <<"#", " ", "b", "i", "n", "d", " ", "x", " ", "c">>
L_bind == <<"b", "i", "n", "d">>
L_x == <<"x", " ", "c">>
L_blank == <<>>

\* the lines an initial config of TwiceSpec and BatchSpec is made of
LinePool == {L_bind_x, L_bind_n_x, L_nav, L_comment_bind_x}
\* the lines an initial config of TextSpec is made of
TextPool == {L_bind_x, L_bind_n_x, L_comment_bind_x, L_bind, L_x, L_blank}

\* a backup left in the backup directory by an earlier session
OldBackup == File(TextOf(<<L_bind_x>>))

(***************************************************************************)
(* The state machine.  hist records every call with its arguments, its     *)
(* outcome and the files before and after it.                              *)
(***************************************************************************)
NoCall ==
    [op |-> "", keybind |-> <<>>, command |-> <<>>, description |-> <<>>,
     mode |-> PREFIX, category |-> <<>>, create_backup |-> FALSE, bindings |-> <<>>,
     path |-> -1, ok |-> FALSE, msg |-> <<>>, raised |-> "", results |-> <<>>]

Step(call, cfg2, bks2) ==
    /\ config' = cfg2
    /\ backups' = bks2
    /\ hist' = Append(hist, call @@ [pre |-> config, post |-> cfg2, bpre |-> backups,
                                     bpost |-> bks2, at |-> now])
    /\ UNCHANGED <<now, keyVars, parserVars, overlayVars>>

CallBackupConfig ==
    \E r \in {backup_config(config, backups, now)} :
        Step([NoCall EXCEPT !.op = "backup_config", !.raised = r.raised,
                            !.ok = (r.raised = ""), !.path = r.path],
             config, r.backups)

CallRestoreBackup(path) ==
    \E r \in {restore_backup(config, backups, path)} :
        Step([NoCall EXCEPT !.op = "restore_backup", !.raised = r.raised,
                            !.ok = (r.raised = ""), !.path = path],
             r.config, backups)

CallAddKeybinding(keybind, command, description, mode, category, create_backup) ==
    \E r \in {add_keybinding(config, backups, now, keybind, command, description, mode,
                             category, create_backup)} :
        Step([NoCall EXCEPT !.op = "add_keybinding", !.keybind = keybind,
                            !.command = command, !.description = description,
                            !.mode = mode, !.category = category,
                            !.create_backup = create_backup, !.ok = r.ok, !.msg = r.msg],
             r.config, r.backups)

CallRemoveKeybinding(keybind, mode, create_backup) ==
    \E r \in {remove_keybinding(config, backups, now, keybind, mode, create_backup)} :
        Step([NoCall EXCEPT !.op = "remove_keybinding", !.keybind = keybind,
                            !.mode = mode, !.create_backup = create_backup,
                            !.ok = r.ok, !.msg = r.msg],
             r.config, r.backups)

CallAddMultipleKeybindings(bindings, create_backup) ==
    \E r \in {add_multiple_keybindings(config, backups, now, bindings, create_backup)} :
        Step([NoCall EXCEPT !.op = "add_multiple_keybindings", !.bindings = bindings,
                            !.create_backup = create_backup, !.ok = TRUE,
                            !.results = r.results],
             r.config, r.backups)

\* a second passes on the wall clock
Tick ==
    /\ now < MaxClock
    /\ now' = now + 1
    /\ UNCHANGED <<config, backups, hist, keyVars, parserVars, overlayVars>>

NoBackups == [t \in Stamps |-> NoFile]

\* the parts of the state a specification does not use stay as constructed
NotShown == [called |-> FALSE, macos |-> FALSE, text |-> <<>>]
NotParsed == [called |-> FALSE, none |-> TRUE, key |-> <<>>, modifiers |-> <<>>,
              command |-> <<>>, mode |-> PREFIX, raw_line |-> <<>>]
NotLoaded == [called |-> FALSE, keybindings |-> <<>>, raw_options |-> <<>>,
              prefix_key |-> <<>>, uses_vim_keys |-> FALSE, uses_arrow_keys |-> FALSE,
              prefers_meta |-> FALSE, prefers_ctrl |-> FALSE, navigation_pattern |-> ""]
NoController == SequenceController(<<>>)
MergerIdle == config = NoFile /\ backups = NoBackups /\ now = 1 /\ hist = <<>>
KeyIdle == notation = <<>> /\ expected = NotCalled /\ display = NotShown
ParserIdle == bindline = <<>> /\ keybinding = NotParsed /\ roundtrip = NotParsed /\ tmux = NotLoaded
OverlayIdle ==
    controller = NoController /\ timers = <<>> /\ window = [closed |-> FALSE] /\ keylog = <<>>

(***************************************************************************)
(* Spec: the life of the config file and the backup directory.  The        *)
(* config may be missing and the backup directory may hold a backup of an  *)
(* earlier session (backups are never pruned).                             *)
(***************************************************************************)
Init ==
    /\ config \in {NoFile, File(TextOf(<<L_bind_x>>))}
    /\ backups \in {NoBackups, [NoBackups EXCEPT ![0] = OldBackup]}
    /\ now = 1
    /\ hist = <<>>
    /\ KeyIdle
    /\ ParserIdle
    /\ OverlayIdle

Next ==
    \/ Tick
    \/ /\ Len(hist) < MaxOps
       /\ \/ CallBackupConfig
          \/ \E path \in Stamps : CallRestoreBackup(path)
          \/ \E m \in {PREFIX, ROOT}, b \in BOOLEAN :
                CallAddKeybinding(K_x, Command, <<>>, m, <<>>, b)
          \/ \E m \in {PREFIX, ROOT}, b \in BOOLEAN : CallRemoveKeybinding(K_x, m, b)
          \/ \E b \in BOOLEAN : CallAddMultipleKeybindings(LifeBatch, b)

Spec == Init /\ [][Next]_vars

(***************************************************************************)
(* TwiceSpec: add_keybinding called twice on a config drawn from LinePool. *)
(***************************************************************************)
PoolInit ==
    /\ config \in {NoFile} \cup {File(TextOf(ls)) : ls \in SeqsUpTo(LinePool, MaxInitLines)}
    /\ backups = NoBackups
    /\ now = 1
    /\ hist = <<>>
    /\ KeyIdle
    /\ ParserIdle
    /\ OverlayIdle

FirstAdd ==
    /\ hist = <<>>
    /\ \E k \in Keys, m \in BindingMode, o \in AddOptions, b \in BOOLEAN :
          CallAddKeybinding(k, Command, o.description, m, o.category, b)

SecondAdd ==
    /\ Len(hist) = 1
    /\ \E k \in Keys, m \in BindingMode, o \in AddOptions, b \in BOOLEAN :
          CallAddKeybinding(k, Command, o.description, m, o.category, b)

TwiceNext == FirstAdd \/ SecondAdd

TwiceSpec == PoolInit /\ [][TwiceNext]_vars

(***************************************************************************)
(* TextSpec: one add_keybinding or remove_keybinding on a config drawn     *)
(* from TextPool.                                                          *)
(***************************************************************************)
TextInit ==
    /\ config \in {File(TextOf(ls)) : ls \in SeqsUpTo(TextPool, MaxTextLines)}
    /\ backups = NoBackups
    /\ now = 1
    /\ hist = <<>>
    /\ KeyIdle
    /\ ParserIdle
    /\ OverlayIdle

TextNext ==
    /\ hist = <<>>
    /\ \/ \E k \in Keys, m \in BindingMode :
             CallAddKeybinding(k, Command, <<>>, m, <<>>, FALSE)
       \/ \E k \in Keys, m \in BindingMode, b \in BOOLEAN :
             CallRemoveKeybinding(k, m, b)

TextSpec == TextInit /\ [][TextNext]_vars

(***************************************************************************)
(* BatchSpec: one add_multiple_keybindings on a config drawn from LinePool.*)
(***************************************************************************)
BatchNext ==
    /\ hist = <<>>
    /\ \E bs \in SeqsUpTo(BatchItems, MaxBatch), b \in BOOLEAN :
          CallAddMultipleKeybindings(bs, b)

BatchSpec == PoolInit /\ [][BatchNext]_vars

(***************************************************************************)
(* KeySpec: get_expected_key applied to one notation: an optional leading  *)
(* blank, an optional prefix, and a key.                                   *)
(***************************************************************************)
Prefixes == {<<>>, P_meta, P_ctrl, P_shift}
Symbols == {<<shifted_symbols[i][1]>> : i \in 1..Len(shifted_symbols)}
Letters == {<<UpperLetters[i]>> : i \in 1..26} \cup {<<LowerLetters[i]>> : i \in 1..26}
OtherKeys ==
    KeyMapNames \cup {<<>>, <<"-">>, <<"[">>, <<"1">>, <<"M", "-", "x">>, <<"C", "-", "a">>,
                     <<"S", "-", "X">>, <<"F", "1">>, N_PageUp}
Notations ==
    {pad \o pre \o key : pad \in {<<>>, <<SP>>}, pre \in Prefixes,
                         key \in Symbols \cup Letters \cup OtherKeys}

KeyInit ==
    /\ notation \in Notations
    /\ expected = NotCalled
    /\ display = NotShown
    /\ MergerIdle
    /\ ParserIdle
    /\ OverlayIdle

CallGetExpectedKey ==
    /\ ~expected.called
    /\ expected' = get_expected_key(notation)
    /\ UNCHANGED <<notation, display, mergerVars, parserVars, overlayVars>>

CallParseKeybind ==
    /\ ~display.called
    /\ \E macos \in BOOLEAN : display' = parse_keybind(notation, macos)
    /\ UNCHANGED <<notation, expected, mergerVars, parserVars, overlayVars>>

KeyNext == CallGetExpectedKey \/ CallParseKeybind

KeySpec == KeyInit /\ [][KeyNext]_vars

(***************************************************************************)
(* ParseSpec: _parse_bind_line applied to one line                         *)
(*   <word> [flags] <key> [<command>]                                      *)
(* and, when it returned a Keybinding, format_binding applied to the       *)
(* key_combo, command and mode of that Keybinding and the formatted line   *)
(* parsed again.                                                           *)
(***************************************************************************)
F_n == W_dash_n
F_T(name) == W_dash_T \o <<SP>> \o name
TableNames == {W_copy_mode, W_copy_mode_vi, W_root}

\* the flags of a line: -n and -T <name>, each at most once, in either order
FlagSeqs ==
    {<<>>, <<F_n>>}
      \cup {<<F_T(m)>> : m \in TableNames}
      \cup {<<F_n, F_T(m)>> : m \in TableNames}
      \cup {<<F_T(m), F_n>> : m \in TableNames}

UnquotedKeys ==
    {K_x, <<"M", "-", "h">>, <<"C", "-", "M", "-", "x">>, <<"C", "-">>, <<"C", "-", "-">>,
     <<"C", "-", "C", "-", "a">>, <<"S", "-", "C", "-", "M", "-", "a">>}
QuotedKeys == {<<"\"", "x", "\"">>, <<"'", "x", " ", "y", "'">>, <<"'", "\"", "'">>, <<"\"", "\"">>}
C_select_pane_L == <<"s", "e", "l", "e", "c", "t", "-", "p", "a", "n", "e", " ", "-", "L">>
NoCommand == <<>>
Commands == {NoCommand, Command, C_select_pane_L}

Templates ==
    [word : {W_bind, W_bind_key}, flags : FlagSeqs, key : UnquotedKeys \cup QuotedKeys,
     command : Commands, gap : 1..MaxGap]

\* the line of a template: its words with gap blanks between them
Render(t) ==
    LET words == <<t.word>> \o t.flags \o <<t.key>>
                   \o (IF t.command = NoCommand THEN <<>> ELSE <<t.command>>)
    IN Join([i \in 1..t.gap |-> SP], words)

BindLines == {Render(t) : t \in Templates}

ParseInit ==
    /\ bindline \in BindLines
    /\ keybinding = NotParsed
    /\ roundtrip = NotParsed
    /\ tmux = NotLoaded
    /\ MergerIdle
    /\ KeyIdle
    /\ OverlayIdle

CallParseBindLine ==
    /\ ~keybinding.called
    /\ keybinding' = _parse_bind_line(bindline)
    /\ UNCHANGED <<bindline, roundtrip, tmux, mergerVars, keyVars, overlayVars>>

\* format_binding(kb.key_combo, kb.command, mode=kb.mode), parsed again
FormatAndParse(kb) ==
    _parse_bind_line(format_binding(key_combo(kb), kb.command, <<>>, kb.mode))

CallFormatAndParse ==
    /\ keybinding.called
    /\ ~keybinding.none
    /\ ~roundtrip.called
    /\ roundtrip' = FormatAndParse(keybinding)
    /\ UNCHANGED <<bindline, keybinding, tmux, mergerVars, keyVars, overlayVars>>

ParseNext == CallParseBindLine \/ CallFormatAndParse

ParseSpec == ParseInit /\ [][ParseNext]_vars

(***************************************************************************)
(* StyleSpec and OptionSpec: parse_tmux_config applied to a config file of *)
(* bind lines (StyleSpec) or of set lines and others (OptionSpec).         *)
(***************************************************************************)
S_root_M_h == <<"b", "i", "n", "d", " ", "-", "n", " ", "M", "-", "h", " ", "s", "e", "l", "e", "c", "t", "-", "p", "a", "n", "e", " ", "-", "L">>
S_root_M_j == <<"b", "i", "n", "d", " ", "-", "n", " ", "M", "-", "j", " ", "s", "e", "l", "e", "c", "t", "-", "p", "a", "n", "e", " ", "-", "D">>
S_root_M_l == <<"b", "i", "n", "d", " ", "-", "n", " ", "M", "-", "l", " ", "s", "e", "l", "e", "c", "t", "-", "p", "a", "n", "e", " ", "-", "R">>
S_M_h == <<"b", "i", "n", "d", " ", "M", "-", "h", " ", "s", "e", "l", "e", "c", "t", "-", "p", "a", "n", "e", " ", "-", "L">>
S_root_h == <<"b", "i", "n", "d", " ", "-", "n", " ", "h", " ", "s", "e", "l", "e", "c", "t", "-", "p", "a", "n", "e", " ", "-", "L">>
S_root_j == <<"b", "i", "n", "d", " ", "-", "n", " ", "j", " ", "s", "e", "l", "e", "c", "t", "-", "p", "a", "n", "e", " ", "-", "D">>
S_root_k == <<"b", "i", "n", "d", " ", "-", "n", " ", "k", " ", "s", "e", "l", "e", "c", "t", "-", "p", "a", "n", "e", " ", "-", "U">>
S_C_a == <<"b", "i", "n", "d", " ", "C", "-", "a", " ", "s", "e", "n", "d", "-", "p", "r", "e", "f", "i", "x">>
S_Left == <<"b", "i", "n", "d", " ", "L", "e", "f", "t", " ", "s", "e", "l", "e", "c", "t", "-", "p", "a", "n", "e", " ", "-", "L">>
S_H == <<"b", "i", "n", "d", " ", "H", " ", "s", "e", "l", "e", "c", "t", "-", "p", "a", "n", "e", " ", "-", "L">>
S_root_M_k_split == <<"b", "i", "n", "d", " ", "-", "n", " ", "M", "-", "k", " ", "s", "p", "l", "i", "t", "-", "w", "i", "n", "d", "o", "w", " ", "-", "h">>
O_set_g_prefix_C_a == <<"s", "e", "t", " ", "-", "g", " ", "p", "r", "e", "f", "i", "x", " ", "C", "-", "a">>
O_set_option_g_prefix_C_s == <<"s", "e", "t", "-", "o", "p", "t", "i", "o", "n", " ", "-", "g", " ", "p", "r", "e", "f", "i", "x", " ", "C", "-", "s">>
O_set_prefix_quoted_C_x == <<"s", "e", "t", " ", "p", "r", "e", "f", "i", "x", " ", "'", "C", "-", "x", "'">>
O_set_g_mouse_on == <<"s", "e", "t", " ", "-", "g", " ", "m", "o", "u", "s", "e", " ", "o", "n">>
O_set_g_prefix2_C_q == <<"s", "e", "t", " ", "-", "g", " ", "p", "r", "e", "f", "i", "x", "2", " ", "C", "-", "q">>
O_comment_set_prefix == <<"#", " ", "s", "e", "t", " ", "-", "g", " ", "p", "r", "e", "f", "i", "x", " ", "C", "-", "z">>
O_unbind_C_b == <<"u", "n", "b", "i", "n", "d", " ", "C", "-", "b">>

StylePool == {S_root_M_h, S_root_M_j, S_root_M_l, S_M_h, S_root_h, S_root_j, S_root_k, S_C_a, S_Left, S_H, S_root_M_k_split}
OptionPool == {O_set_g_prefix_C_a, O_set_option_g_prefix_C_s, O_set_prefix_quoted_C_x, O_set_g_mouse_on, O_set_g_prefix2_C_q, O_comment_set_prefix, O_unbind_C_b, S_C_a}

StyleInit ==
    /\ config \in {NoFile} \cup {File(TextOf(ls)) : ls \in SeqsUpTo(StylePool, MaxStyleLines)}
    /\ backups = NoBackups /\ now = 1 /\ hist = <<>>
    /\ bindline = <<>> /\ keybinding = NotParsed /\ roundtrip = NotParsed
    /\ tmux = NotLoaded
    /\ KeyIdle
    /\ OverlayIdle

OptionInit ==
    /\ config \in {NoFile} \cup {File(TextOf(ls)) : ls \in SeqsUpTo(OptionPool, MaxOptionLines)}
    /\ backups = NoBackups /\ now = 1 /\ hist = <<>>
    /\ bindline = <<>> /\ keybinding = NotParsed /\ roundtrip = NotParsed
    /\ tmux = NotLoaded
    /\ KeyIdle
    /\ OverlayIdle

CallParseTmuxConfig ==
    /\ ~tmux.called
    /\ tmux' = parse_tmux_config(config)
    /\ UNCHANGED <<bindline, keybinding, roundtrip, mergerVars, keyVars, overlayVars>>

StyleNext == CallParseTmuxConfig

StyleSpec == StyleInit /\ [][StyleNext]_vars

OptionSpec == OptionInit /\ [][StyleNext]_vars

(***************************************************************************)
(* OverlaySpec: a SequenceController over up to MaxSteps steps, key events *)
(* as keyPressEvent emits them (a lowercase key with any set of modifiers, *)
(* or escape with none), and the timers firing at any moment between them. *)
(***************************************************************************)
MaxSteps == 2
MaxKeys == 3

StepPool == {<<"C", "-", "a">>, <<"M", "-", "H">>}
EventKeys == {<<"a">>, <<"h">>}
EventModifiers == SUBSET {"alt", "ctrl", "shift"}

OverlayInit ==
    /\ controller \in {SequenceController(steps) : steps \in SeqsUpTo(StepPool, MaxSteps)}
    /\ timers = <<>>
    /\ window = [closed |-> FALSE]
    /\ keylog = <<>>
    /\ MergerIdle
    /\ KeyIdle
    /\ ParserIdle

\* main: controller.start()
Start ==
    /\ ~controller.started
    /\ \E r \in {start(controller, window)} :
          /\ controller' = r.controller
          /\ window' = r.window
    /\ UNCHANGED <<timers, keylog, mergerVars, keyVars, parserVars>>

\* the window emits key_pressed(key, modifiers)
KeyPressed(key, modifiers) ==
    /\ controller.started
    /\ ~window.closed
    /\ Len(keylog) < MaxKeys
    /\ \E r \in {_on_key(key, modifiers, controller, timers, window)} :
          /\ controller' = r.controller
          /\ timers' = r.timers
          /\ window' = r.window
    /\ keylog' = Append(keylog, [key |-> key, modifiers |-> modifiers,
                                 index |-> controller.current_index])
    /\ UNCHANGED <<mergerVars, keyVars, parserVars>>

\* the single-shot timer at j fires
TimerFires(j) ==
    /\ ~window.closed
    /\ CanFire(timers, j)
    /\ timers' = RemoveAt(timers, j)
    /\ IF timers[j].callback = "close_overlay"
       THEN window' = [window EXCEPT !.closed = TRUE] /\ UNCHANGED controller
       ELSE controller' = _show_current(controller) /\ UNCHANGED window
    /\ UNCHANGED <<keylog, mergerVars, keyVars, parserVars>>

OverlayNext ==
    \/ Start
    \/ \E key \in EventKeys, modifiers \in EventModifiers : KeyPressed(key, modifiers)
    \/ KeyPressed(ESCAPE, {})
    \/ \E j \in 1..Len(timers) : TimerFires(j)

OverlaySpec == OverlayInit /\ [][OverlayNext]_vars

(***************************************************************************)
(* SectionSpec: up to MaxAdds add_keybinding calls, with and without a     *)
(* category and a description, on a config drawn from SectionPool: section *)
(* headers, a comment that is no header, a bind line that mentions a       *)
(* category after a #, and a blank line.                                   *)
(***************************************************************************)
MaxSectionLines == 3
MaxAdds == 2

H_panes == <<"#", " ", "P", "a", "n", "e", "s">>
H_notes == <<"#", " ", "n", "o", "t", "e", "s">>
B_z_hash_nav == <<"b", "i", "n", "d", " ", "z", " ", "r", " ", "#", "n", "a", "v">>
Cat_a_plus_b == <<"a", "+", "b">>
K_y == <<"y">>
D_d == <<"d">>

SectionPool == {L_nav, H_panes, H_notes, B_z_hash_nav, L_blank}
SectionKeys == {K_x, K_y}
Categories == {<<>>, Cat_nav, Cat_a_plus_b}
Descriptions == {<<>>, D_d}

SectionInit ==
    /\ config \in {NoFile}
          \cup {File(TextOf(ls)) : ls \in SeqsUpTo(SectionPool, MaxSectionLines)}
    /\ backups = NoBackups
    /\ now = 1
    /\ hist = <<>>
    /\ KeyIdle
    /\ ParserIdle
    /\ OverlayIdle

SectionNext ==
    /\ Len(hist) < MaxAdds
    /\ \E k \in SectionKeys, d \in Descriptions, c \in Categories :
          CallAddKeybinding(k, Command, d, PREFIX, c, FALSE)

SectionSpec == SectionInit /\ [][SectionNext]_vars

(***************************************************************************)
(* ReparseSpec: parse_tmux_config on a config of bind lines, one           *)
(* add_keybinding call on that config, and parse_tmux_config on the file   *)
(* the call left.  hist records the three calls; the record of a parse     *)
(* holds the keybindings it returned.                                      *)
(***************************************************************************)
MaxReparseLines == 2

R_bind_quoted_x == <<"b", "i", "n", "d", " ", "\"", "x", "\"", " ", "c">>
R_bind_T_root_x == <<"b", "i", "n", "d", " ", "-", "T", " ", "r", "o", "o", "t", " ", "x", " ", "c">>
R_bind_y == <<"b", "i", "n", "d", " ", "y", " ", "c">>
K_quoted_x == <<"\"", "x", "\"">>

ReparsePool == {L_bind_x, L_bind_n_x, R_bind_quoted_x, R_bind_T_root_x, R_bind_y, L_comment_bind_x}
ReparseKeys == {K_x, K_dash_n, K_quoted_x}

ReparseInit ==
    /\ config \in {NoFile}
          \cup {File(TextOf(ls)) : ls \in SeqsUpTo(ReparsePool, MaxReparseLines)}
    /\ backups = NoBackups
    /\ now = 1
    /\ hist = <<>>
    /\ KeyIdle
    /\ ParserIdle
    /\ OverlayIdle

\* parse_tmux_config(config_path), the first time and after the add_keybinding call
CallParseConfigFile ==
    /\ Len(hist) \in {0, 2}
    /\ \E r \in {parse_tmux_config(config)} :
          /\ tmux' = r
          /\ hist' = Append(hist,
                            [NoCall EXCEPT !.op = "parse_tmux_config", !.ok = TRUE,
                                           !.results = r.keybindings]
                              @@ [pre |-> config, post |-> config, bpre |-> backups,
                                  bpost |-> backups, at |-> now])
    /\ UNCHANGED <<config, backups, now, bindline, keybinding, roundtrip, keyVars,
                   overlayVars>>

AddToParsedConfig ==
    /\ Len(hist) = 1
    /\ \E k \in ReparseKeys, m \in BindingMode, b \in BOOLEAN :
          CallAddKeybinding(k, Command, <<>>, m, <<>>, b)

ReparseNext == CallParseConfigFile \/ AddToParsedConfig

ReparseSpec == ReparseInit /\ [][ReparseNext]_vars

(***************************************************************************)
(* The claims.                                                             *)
(***************************************************************************)
\* the text add_keybinding and remove_keybinding read from a file
TextOfFile(f) == read_text(f.data)

\* the backup files an operation wrote: those that differ after it
Written(call) == {t \in Stamps : call.bpost[t] # call.bpre[t]}

\* the two calls of TwiceSpec are add_keybinding with the same key and mode,
\* and the first returned success
SameBindingTwice ==
    /\ Len(hist) = 2
    /\ hist[1].ok
    /\ hist[2].keybind = hist[1].keybind
    /\ hist[2].mode = hist[1].mode

\* C1 (TwiceSpec): after a successful add_keybinding(key, command, mode), a
\* following add_keybinding with the same key and mode, whatever its command,
\* description, category and backup flag, returns (False, "Binding for <key>
\* already exists") and leaves the config as the first call left it; the only
\* file it may write is the backup of that config.
C1_SecondAddRejected ==
    SameBindingTwice =>
        /\ ~hist[2].ok
        /\ hist[2].msg = <<"Binding for ", hist[2].keybind, " already exists">>
        /\ hist[2].post = hist[1].post
        /\ config = hist[1].post
        /\ \A t \in Written(hist[2]) :
              hist[2].create_backup /\ t = hist[2].at /\ hist[2].bpost[t] = hist[1].post

\* the second call differs from the first in its options and takes a backup
C1_Witness ==
    /\ SameBindingTwice
    /\ hist[1].mode = COPY_MODE_VI
    /\ hist[1].pre.exists
    /\ hist[2].description # hist[1].description
    /\ hist[2].create_backup
    /\ ~hist[2].ok

\* the call of TextSpec is remove_keybinding of a key that the duplicate check
\* of add_keybinding does not find in the config
RemoveOfUnbound ==
    /\ Len(hist) = 1
    /\ hist[1].op = "remove_keybinding"
    /\ ~_binding_exists(TextOfFile(hist[1].pre), hist[1].keybind, hist[1].mode)

\* C2 (TextSpec): remove_keybinding(key, mode) on a config in which the
\* duplicate check finds no binding of the key in that mode returns (False,
\* "Binding for <key> not found") and leaves the config unchanged, whatever
\* other lines the file holds.
C2_RemoveUnboundNotFound ==
    RemoveOfUnbound =>
        /\ ~hist[1].ok
        /\ hist[1].msg = <<"Binding for ", hist[1].keybind, " not found">>
        /\ hist[1].post = hist[1].pre

\* C3 (TextSpec): after remove_keybinding(key, mode) returned success the
\* duplicate check finds no binding of key in mode in the config, so that a
\* following add_keybinding(key, ..., mode) is not rejected.
C3_RemovedIsNotDuplicate ==
    (Len(hist) = 1 /\ hist[1].op = "remove_keybinding" /\ hist[1].ok) =>
        ~_binding_exists(TextOfFile(config), hist[1].keybind, hist[1].mode)

\* the symbol, its base key and the prefix of a notation <prefix><symbol>
SymbolCase(i, pre) == expected.called /\ notation = pre \o <<shifted_symbols[i][1]>>

C5_MetaLetter ==
    \A i \in 1..26 :
        /\ (expected.called /\ notation = P_meta \o <<UpperLetters[i]>>) =>
              expected = ExpectedKey({"alt", "shift"}, <<LowerLetters[i]>>)
        /\ (expected.called /\ notation = P_meta \o <<LowerLetters[i]>>) =>
              expected = ExpectedKey({"alt"}, <<LowerLetters[i]>>)

\* get_expected_key("M-H") has returned
C5_Witness ==
    /\ expected.called
    /\ notation = <<"M", "-", "H">>
    /\ expected.modifiers = {"alt", "shift"}
    /\ expected.key = <<"h">>

\* C6 (Spec): a backup file holds the config as it was when the backup was
\* taken, and no later operation changes, overwrites or removes it, whatever
\* the clock shows when the backups are taken.
C6_BackupsKept ==
    \A i \in 1..Len(hist), t \in Stamps :
        /\ (hist[i].bpre[t].exists) => hist[i].bpost[t] = hist[i].bpre[t]
        /\ (~hist[i].bpre[t].exists /\ hist[i].bpost[t].exists /\ hist[i].pre.exists) =>
              hist[i].bpost[t] = hist[i].pre

\* call i created the config
Created(i) == ~hist[i].pre.exists /\ hist[i].post.exists

\* call i created the config through add_keybinding: the header comment,
\* then a binding of the key it was given
CreatedByAdd(i) ==
    /\ StartsWith(hist[i].post.data, NewConfigText)
    /\ \/ /\ hist[i].op = "add_keybinding"
          /\ _binding_exists(hist[i].post.data, hist[i].keybind, hist[i].mode)
       \/ /\ hist[i].op = "add_multiple_keybindings"
          /\ hist[i].bindings # <<>>
          /\ _binding_exists(hist[i].post.data, hist[i].bindings[1].keybind,
                             hist[i].bindings[1].mode)

\* C7 as claimed (Spec): once the config exists it exists in every later
\* state, and a missing config is created only by add_keybinding, with the
\* header comment followed by the new binding.
C7_CreatedOnlyByAdd ==
    \A i \in 1..Len(hist) :
        /\ hist[i].pre.exists => hist[i].post.exists
        /\ Created(i) => CreatedByAdd(i)

\* C7 as amended (Spec): once the config exists it exists in every later
\* state; a missing config is created by add_keybinding, with the header
\* comment followed by the new binding, or by restore_backup, as a copy of the
\* backup; no operation deletes it.
C7_CreatedByAddOrRestore ==
    \A i \in 1..Len(hist) :
        /\ hist[i].pre.exists => hist[i].post.exists
        /\ Created(i) =>
              \/ CreatedByAdd(i)
              \/ /\ hist[i].op = "restore_backup"
                 /\ hist[i].bpre[hist[i].path].exists
                 /\ hist[i].post = hist[i].bpre[hist[i].path]

\* a missing config was created by add_keybinding, and a later
\* remove_keybinding took its only binding out
C7_Witness ==
    /\ Len(hist) = 2
    /\ hist[1].op = "add_keybinding" /\ Created(1)
    /\ hist[2].op = "remove_keybinding" /\ hist[2].ok
    /\ config.exists

\* C8 (TwiceSpec): a binding of key k that add_keybinding wrote in mode m1
\* does not make add_keybinding(k, ..., m2) fail for another mode m2: when the
\* config held no binding of k in m2 before, the second call succeeds.
C8_ModeScoped ==
    (/\ Len(hist) = 2
     /\ hist[1].ok
     /\ hist[2].keybind = hist[1].keybind
     /\ hist[2].mode # hist[1].mode
     /\ ~_binding_exists(TextOfFile(hist[1].pre), hist[2].keybind, hist[2].mode))
    => hist[2].ok

\* C9 (Spec): backup_config on a missing config raises FileNotFoundError and
\* writes no backup; restore_backup of a missing backup raises
\* FileNotFoundError and leaves the config unchanged; remove_keybinding on a
\* missing config returns (False, "Config file not found") and creates neither
\* the config nor a backup.
C9_NotFoundChangesNothing ==
    \A i \in 1..Len(hist) :
        /\ (hist[i].op = "backup_config" /\ ~hist[i].pre.exists) =>
              /\ hist[i].raised = "FileNotFoundError"
              /\ hist[i].bpost = hist[i].bpre
              /\ hist[i].post = hist[i].pre
        /\ (hist[i].op = "restore_backup" /\ ~hist[i].bpre[hist[i].path].exists) =>
              /\ hist[i].raised = "FileNotFoundError"
              /\ hist[i].post = hist[i].pre
              /\ hist[i].bpost = hist[i].bpre
        /\ (hist[i].op = "remove_keybinding" /\ ~hist[i].pre.exists) =>
              /\ ~hist[i].ok
              /\ hist[i].msg = <<"Config file not found">>
              /\ ~hist[i].post.exists
              /\ hist[i].bpost = hist[i].bpre

\* backup_config and then remove_keybinding, with a backup asked for, were
\* called on a missing config
C9_Witness ==
    /\ Len(hist) = 2
    /\ hist[1].op = "backup_config" /\ ~hist[1].pre.exists
    /\ hist[2].op = "remove_keybinding" /\ ~hist[2].pre.exists /\ hist[2].create_backup
    /\ ~config.exists

\* the line add_keybinding writes for item b of a list
ItemLine(b) == format_binding(b.keybind, b.command, b.description, b.mode)

\* C10 (BatchSpec): add_multiple_keybindings takes at most one backup, of the
\* config as it was before the first item; it returns one (key, success,
\* message) triple per item in list order, each message that of add_keybinding
\* without a backup; the line of every item that succeeded is in the final
\* config; an item fails only as a duplicate, of a binding of the config or of
\* an earlier item, and after failed items an item that is no duplicate
\* succeeds.
C10_BatchPerItem ==
    \A c \in {hist[i] : i \in 1..Len(hist)} :
        c.op = "add_multiple_keybindings" =>
            /\ c.bpost = IF c.create_backup /\ c.pre.exists
                         THEN [c.bpre EXCEPT ![c.at] = c.pre] ELSE c.bpre
            /\ Len(c.results) = Len(c.bindings)
            /\ \A i \in 1..Len(c.bindings) :
                  LET b == c.bindings[i]
                      res == c.results[i]
                  IN /\ res[1] = b.keybind
                     /\ res[3] = IF res[2]
                                 THEN <<"Added binding: ", b.keybind, " -> ", b.command>>
                                 ELSE <<"Binding for ", b.keybind, " already exists">>
                     /\ res[2] => \E n \in 1..Len(splitlines(c.post.data)) :
                                     splitlines(c.post.data)[n] = ItemLine(b)
                     /\ ~res[2] =>
                           \/ _binding_exists(TextOfFile(c.pre), b.keybind, b.mode)
                           \/ \E j \in 1..(i - 1) : c.results[j][2]
                     /\ (/\ \A j \in 1..(i - 1) : ~c.results[j][2]
                         /\ ~_binding_exists(TextOfFile(c.pre), b.keybind, b.mode))
                        => res[2]
                     /\ \A j \in 1..(i - 1) :
                           (c.bindings[j] = b /\ c.results[j][2]) => ~res[2]

\* a list of three items: the first fails as a duplicate of the config, the
\* second succeeds, the third fails as a duplicate of the second
C10_Witness ==
    /\ Len(hist) = 1
    /\ hist[1].create_backup
    /\ hist[1].pre.exists
    /\ Len(hist[1].results) = 3
    /\ ~hist[1].results[1][2]
    /\ hist[1].results[2][2]
    /\ ~hist[1].results[3][2]
    /\ hist[1].bindings[3] = hist[1].bindings[2]

\* the mode the flags of a line stand for: that of -T when -T is there, Root
\* for -n alone, Prefix for no flag
FlagsMode(flags) ==
    IF \E i \in 1..Len(flags) : flags[i] = F_T(W_copy_mode) THEN COPY_MODE
    ELSE IF \E i \in 1..Len(flags) : flags[i] = F_T(W_copy_mode_vi) THEN COPY_MODE_VI
    ELSE IF \E i \in 1..Len(flags) : flags[i] = F_T(W_root) THEN ROOT
    ELSE IF \E i \in 1..Len(flags) : flags[i] = F_n THEN ROOT
    ELSE PREFIX

\* _parse_bind_line returned a Keybinding for the line of template t
ParsedFrom(t) == keybinding.called /\ ~keybinding.none /\ bindline = Render(t)

\* C11 (ParseSpec): the mode of the Keybinding parsed from a bind / bind-key
\* line is decided by its flags alone: Root for -n, CopyMode, CopyModeVi and
\* Root for -T copy-mode, -T copy-mode-vi and -T root, the mode of -T when both
\* flags are there, and Prefix when there is no flag; key, command, the word
\* and the blanks between the words do not matter.
C11_ModeFromFlags ==
    \A t \in Templates : ParsedFrom(t) => keybinding.mode = FlagsMode(t.flags)

\* a line with -n and then -T copy-mode-vi was parsed: the mode is that of -T
C11_Witness ==
    /\ keybinding.called
    /\ bindline = <<"b", "i", "n", "d", " ", "-", "n", " ", "-", "T", " ", "c", "o", "p", "y", "-", "m", "o", "d", "e", "-", "v", "i", " ", "M", "-", "h", " ", "s", "e", "l", "e", "c", "t", "-", "p", "a", "n", "e", " ", "-", "L">>
    /\ ~keybinding.none
    /\ keybinding.mode = COPY_MODE_VI

\* C12 (ParseSpec): a bind / bind-key line with a key but no command, the key
\* unquoted or quoted, gives no Keybinding, and the command of every
\* Keybinding that _parse_bind_line returns is non-empty.
C12_NoCommandNoKeybinding ==
    /\ \A t \in Templates :
          (keybinding.called /\ bindline = Render(t) /\ t.command = NoCommand
             /\ t.flags \notin {<<F_T(m), F_n>> : m \in TableNames})
          => keybinding.none
    /\ (keybinding.called /\ ~keybinding.none) => keybinding.command # <<>>

\* C15 (ParseSpec): for a line with a key and a command, the line that
\* format_binding makes of the parsed key_combo, command and mode parses back
\* to the same key, modifiers, mode and command.
C15_RoundTrip ==
    \A t \in Templates :
        (ParsedFrom(t) /\ t.command # NoCommand /\ roundtrip.called) =>
            /\ ~roundtrip.none
            /\ roundtrip.key = keybinding.key
            /\ roundtrip.modifiers = keybinding.modifiers
            /\ roundtrip.mode = keybinding.mode
            /\ roundtrip.command = keybinding.command

\* the vim-direction keys that some navigation binding of the parsed config
\* binds with Meta, and those that some navigation binding binds in Root mode
MetaVimKeys ==
    {k \in vim_keys : \E i \in 1..Len(tmux.keybindings) :
        LET kb == tmux.keybindings[i]
        IN kb.key = k /\ is_navigation(kb) /\ HasModifier(kb, META)}
RootVimKeys ==
    {k \in vim_keys : \E i \in 1..Len(tmux.keybindings) :
        LET kb == tmux.keybindings[i]
        IN kb.key = k /\ is_navigation(kb) /\ kb.mode = ROOT}

\* C13 (StyleSpec): navigation_pattern is 'M-hjkl' iff uses_vim_keys holds and
\* at least 3 of the 4 keys h, j, k, l are each bound with Meta to a navigation
\* command; otherwise 'hjkl (root)' iff at least 3 of the 4 keys are bound in
\* Root mode to a navigation command; otherwise it is unset.
C13_PatternByKeys ==
    tmux.called =>
        tmux.navigation_pattern =
            IF tmux.uses_vim_keys /\ Cardinality(MetaVimKeys) >= 3 THEN "M-hjkl"
            ELSE IF Cardinality(RootVimKeys) >= 3 THEN "hjkl (root)"
            ELSE ""

\* the bindings of the parsed config that satisfy P
Bindings(P(_)) == {i \in 1..Len(tmux.keybindings) : P(tmux.keybindings[i])}

\* C14 (StyleSpec): prefers_meta is true iff more bindings have Meta among
\* their modifiers than have Ctrl, or three times the number of Root-mode
\* bindings exceeds the number of bindings; it is false for no bindings.
C14_PrefersMeta ==
    tmux.called =>
        LET meta == Cardinality(Bindings(LAMBDA kb : HasModifier(kb, META)))
            ctrl == Cardinality(Bindings(LAMBDA kb : HasModifier(kb, CTRL)))
            root == Cardinality(Bindings(LAMBDA kb : kb.mode = ROOT))
        IN /\ tmux.prefers_meta <=> (meta > ctrl \/ 3 * root > Len(tmux.keybindings))
           /\ tmux.keybindings = <<>> => ~tmux.prefers_meta

\* of three bindings one has Ctrl, none has Meta and two are Root-mode
\* bindings: prefers_meta holds by the Root-mode count alone
C14_Witness ==
    /\ tmux.called
    /\ Len(tmux.keybindings) = 3
    /\ Bindings(LAMBDA kb : HasModifier(kb, META)) = {}
    /\ Cardinality(Bindings(LAMBDA kb : HasModifier(kb, CTRL))) = 1
    /\ Cardinality(Bindings(LAMBDA kb : kb.mode = ROOT)) = 2
    /\ tmux.prefers_meta

\* the value a line of OptionPool gives the option prefix, <<>> when it does
\* not name that option
PrefixValueOf(ln) ==
    IF ln = O_set_g_prefix_C_a THEN <<"C", "-", "a">>
    ELSE IF ln = O_set_option_g_prefix_C_s THEN <<"C", "-", "s">>
    ELSE IF ln = O_set_prefix_quoted_C_x THEN <<"C", "-", "x">>
    ELSE <<>>

\* the lines of the config file
ConfigLines == IF config.exists THEN splitlines(config.data) ELSE <<>>

\* C19 (OptionSpec): style.prefix_key is the value of the last set /
\* set-option line of the file that names the option prefix, and 'C-b' when
\* the file has no such line or does not exist.
C19_LastPrefixWins ==
    tmux.called =>
        LET named == {i \in 1..Len(ConfigLines) : PrefixValueOf(ConfigLines[i]) # <<>>}
            last == CHOOSE i \in named : \A j \in named : j <= i
        IN tmux.prefix_key = IF named = {} THEN <<"C", "-", "b">>
                             ELSE PrefixValueOf(ConfigLines[last])

\* two lines set the prefix and a line that sets another option follows
C19_Witness ==
    /\ tmux.called
    /\ ConfigLines = <<O_set_g_prefix_C_a, O_set_option_g_prefix_C_s, O_set_g_mouse_on>>
    /\ tmux.prefix_key = <<"C", "-", "s">>

\* the lines of StylePool that bind h, j, k or l, and those that bind an
\* arrow key, to a navigation command
VimNavigationLines == {S_root_M_h, S_root_M_j, S_root_M_l, S_M_h, S_root_h, S_root_j, S_root_k}
ArrowNavigationLines == {S_Left}

\* C20 (StyleSpec): uses_vim_keys holds iff some navigation binding has the
\* key h, j, k or l (lower case; modifiers and mode do not matter), and
\* uses_arrow_keys iff some navigation binding has the key Left, Right, Up or
\* Down; the config of `bind -n M-h select-pane -L` and `bind -n M-l
\* select-pane -R` has uses_vim_keys, no navigation_pattern and prefers_meta.
C20_VimAndArrowKeys ==
    tmux.called =>
        /\ tmux.uses_vim_keys <=>
              \E i \in 1..Len(ConfigLines) : ConfigLines[i] \in VimNavigationLines
        /\ tmux.uses_arrow_keys <=>
              \E i \in 1..Len(ConfigLines) : ConfigLines[i] \in ArrowNavigationLines
        /\ ConfigLines = <<S_root_M_h, S_root_M_l>> =>
              /\ tmux.uses_vim_keys
              /\ tmux.navigation_pattern = ""
              /\ tmux.prefers_meta

\* the config of the two lines was parsed
C20_Witness ==
    /\ tmux.called
    /\ ConfigLines = <<S_root_M_h, S_root_M_l>>
    /\ tmux.uses_vim_keys
    /\ ~tmux.uses_arrow_keys
    /\ Len(tmux.keybindings) = 2

\* what one leading prefix of the notation n stands for: the notation without
\* its surrounding blanks, the one prefix letter at its head (if any), and the
\* remainder after that one prefix
Stripped(n) == Strip(n)
HasOnePrefix(n) ==
    Len(Stripped(n)) >= 2 /\ Stripped(n)[2] = "-" /\ Stripped(n)[1] \in {"M", "C", "S"}
PrefixModifier(n) ==
    IF ~HasOnePrefix(n) THEN {}
    ELSE IF Stripped(n)[1] = "M" THEN {"alt"}
    ELSE IF Stripped(n)[1] = "C" THEN {"ctrl"}
    ELSE {"shift"}
PrefixLabels(n) ==
    IF ~HasOnePrefix(n) THEN {<<>>}
    ELSE IF Stripped(n)[1] = "M" THEN {L_Alt \o PLUS, L_Option \o PLUS}
    ELSE IF Stripped(n)[1] = "C" THEN {L_Ctrl \o PLUS}
    ELSE {L_Shift \o PLUS}
Remainder(n) ==
    IF HasOnePrefix(n) THEN SubSeq(Stripped(n), 3, Len(Stripped(n))) ELSE Stripped(n)
ShownKey(rem) == IF rem \in SpecialKeyNames THEN special_keys(rem) ELSE rem

\* C18 (KeySpec): get_expected_key and parse_keybind strip at most one leading
\* prefix (M- alt, C- ctrl, S- shift) and never look for a further prefix in the
\* remainder: the modifiers returned are those of the one prefix, with at most
\* "shift" added for the key itself; the key returned is the whole remainder,
\* lowercased (or its key_map name), and is lowercase; the text displayed is
\* the label of the one prefix followed by the whole remainder.  So
\* "C-a" gives ({ctrl}, "a"), "Space" gives ({}, "space") and "C-M-x" gives
\* ({ctrl}, "m-x").
C18_OnePrefixStripped ==
    /\ expected.called =>
          /\ PrefixModifier(notation) \subseteq expected.modifiers
          /\ expected.modifiers \subseteq PrefixModifier(notation) \cup {"shift"}
          /\ expected.key = IF Remainder(notation) \in KeyMapNames
                            THEN key_map(Remainder(notation))
                            ELSE Lower(Remainder(notation))
          /\ expected.key = Lower(expected.key)
          /\ notation = <<"C", "-", "a">> => expected = ExpectedKey({"ctrl"}, <<"a">>)
          /\ notation = N_Space => expected = ExpectedKey({}, <<"s", "p", "a", "c", "e">>)
          /\ notation = <<"C", "-", "M", "-", "x">> => expected = ExpectedKey({"ctrl"}, <<"m", "-", "x">>)
    /\ display.called =>
          \E label \in PrefixLabels(notation) :
              display.text = label \o ShownKey(Remainder(notation))

\* get_expected_key and parse_keybind have both been applied to "C-M-x"
C18_Witness ==
    /\ notation = <<"C", "-", "M", "-", "x">>
    /\ expected.called
    /\ expected.modifiers = {"ctrl"}
    /\ display.called
    /\ display.text = <<"C", "t", "r", "l", " ", "+", " ", "M", "-", "x">>

\* step i (counted from 1) was matched while it was the current one: a key
\* event handled at current_index = i - 1 was equal to the step's own expected
\* (modifier set, key)
StepMatched(i) ==
    \E n \in 1..Len(keylog) :
        /\ keylog[n].index = i - 1
        /\ keylog[n].key = get_expected_key(controller.steps[i]).key
        /\ keylog[n].modifiers = get_expected_key(controller.steps[i]).modifiers

\* C16 (OverlaySpec): the overlay ends with completed = true (exit code 0) only
\* if every step of the sequence was matched, while it was the current step, by
\* a key event equal to that step's own expected (modifier set, key), whatever
\* the timing of the key events relative to the delayed callbacks.
C16_CompletedOnlyIfEveryStepMatched ==
    (controller.completed \/ (window.closed /\ main_return(controller) = 0))
        => \A i \in 1..Len(controller.steps) : StepMatched(i)

\* C17 (OverlaySpec): a key event other than escape counts as correct
\* (current_index goes up by one) iff its key equals the expected key and its
\* modifier set equals the expected modifier set; a subset or a superset of the
\* expected modifiers does not match; every other such event leaves
\* current_index and the expected (modifier set, key) as they were.
C17_ExactMatchOnly ==
    [][(Len(keylog') = Len(keylog) + 1 /\ keylog'[Len(keylog')].key # ESCAPE) =>
          LET key == keylog'[Len(keylog')].key
              modifiers == keylog'[Len(keylog')].modifiers
              same == key = controller.expected_key
                        /\ modifiers = controller.expected_modifiers
          IN /\ same => controller'.current_index = controller.current_index + 1
             /\ ~same => /\ controller'.current_index = controller.current_index
                         /\ controller'.expected_key = controller.expected_key
                         /\ controller'.expected_modifiers = controller.expected_modifiers
                         /\ controller'.completed = controller.completed]_vars

\* the last key event had the expected key and a proper superset of the
\* expected modifiers, and the first step is still the current one, after an
\* event with a proper subset of the modifiers
C17_Witness ==
    /\ Len(keylog) = 2
    /\ controller.current_index = 0
    /\ ~controller.completed
    /\ keylog[1].key = controller.expected_key
    /\ keylog[1].modifiers # controller.expected_modifiers
    /\ keylog[1].modifiers \subseteq controller.expected_modifiers
    /\ keylog[2].key = controller.expected_key
    /\ keylog[2].modifiers # controller.expected_modifiers
    /\ controller.expected_modifiers \subseteq keylog[2].modifiers

\* C21 (StyleSpec): for a config whose bindings with Ctrl among their
\* modifiers outnumber its bindings with Meta, and which has no Root-mode
\* binding, the detected style has prefers_ctrl = true.
C21_PrefersCtrl ==
    tmux.called =>
        LET meta == Cardinality(Bindings(LAMBDA kb : HasModifier(kb, META)))
            ctrl == Cardinality(Bindings(LAMBDA kb : HasModifier(kb, CTRL)))
            root == Cardinality(Bindings(LAMBDA kb : kb.mode = ROOT))
        IN (ctrl > meta /\ root = 0) => tmux.prefers_ctrl

\* the add_keybinding calls that returned success
Adds == {n \in 1..Len(hist) : hist[n].op = "add_keybinding" /\ hist[n].ok}
\* the lines of the config before and after call n
LinesBefore(n) == splitlines(TextOfFile(hist[n].pre))
LinesAfter(n) == splitlines(TextOfFile(hist[n].post))
\* the line mentions the category, in any case, somewhere after a #
Mentions(ln, category) ==
    \E p \in 1..Len(ln) :
        /\ ln[p] = "#"
        /\ \E q \in (p + 1)..Len(ln) : StartsWithAt(Lower(ln), q, Lower(category))
IsCommentLine(ln) == ln # <<>> /\ ln[1] = "#"
\* the 1-based number of the line add_keybinding took as the header in call n,
\* 0 when it took none
HeaderTaken(n) == find_section(TextOfFile(hist[n].pre), hist[n].category) + 1
\* the lines add_keybinding read in call n: those of the config, or of the
\* file it made for a missing config
LinesRead(n) ==
    IF hist[n].pre.exists THEN LinesBefore(n) ELSE splitlines(NewConfigText)
\* the description comment, if any, and the bind line of call n
Block(n) ==
    splitlines(format_binding(hist[n].keybind, hist[n].command, hist[n].description,
                              hist[n].mode))

\* C22 (SectionSpec): when add_keybinding is given a category, the line it
\* takes as the header of the category's section is a comment line (it begins
\* with #) that mentions the category in any case, and it is the first such
\* line of the file; a line that is no comment is never taken.
C22_HeaderIsFirstCommentLine ==
    \A n \in Adds :
        (hist[n].category # <<>> /\ HeaderTaken(n) # 0) =>
            /\ IsCommentLine(LinesBefore(n)[HeaderTaken(n)])
            /\ Mentions(LinesBefore(n)[HeaderTaken(n)], hist[n].category)
            /\ \A j \in 1..(HeaderTaken(n) - 1) :
                  ~(IsCommentLine(LinesBefore(n)[j])
                      /\ Mentions(LinesBefore(n)[j], hist[n].category))

\* the lines after the header at line s that end its section: they start with
\* "# " and not with "# " and the first character of the category
SectionEnds(read, s, category) ==
    {j \in (s + 1)..Len(read) :
        /\ StartsWith(read[j], <<"#", SP>>)
        /\ ~StartsWith(read[j], <<"#", SP, category[1]>>)}
\* the number of lines of the file that come before the new binding
PlaceOf(read, s, category) ==
    IF category # <<>> /\ s # 0 /\ SectionEnds(read, s, category) # {}
    THEN (CHOOSE j \in SectionEnds(read, s, category) :
              \A k \in SectionEnds(read, s, category) : j <= k) - 1
    ELSE Len(read)
\* the block stands after the first k lines of the file
BlockAfter(read, after, block, k) ==
    /\ Len(after) >= k + Len(block)
    /\ SubSeq(after, 1, k) = SubSeq(read, 1, k)
    /\ SubSeq(after, k + 1, k + Len(block)) = block

\* C23 (SectionSpec): when the header of the category is found at line s the
\* new binding, with its description comment if any, is inserted after line s,
\* immediately before the first later line that starts with "# " and not with
\* "# " and the first character of the category, or at end of file when there
\* is no such line; with no category the binding is appended at end of file.
C23_InsertedAtEndOfSection ==
    \A n \in Adds :
      \A read \in {LinesRead(n)}, after \in {LinesAfter(n)}, block \in {Block(n)},
         s \in {IF hist[n].category = <<>> THEN 0 ELSE HeaderTaken(n)} :
        \A k \in {PlaceOf(read, s, hist[n].category)} :
          /\ (hist[n].category # <<>> /\ s # 0) =>
                /\ k >= s
                /\ BlockAfter(read, after, block, k)
                /\ IF k < Len(read)
                   THEN after[k + Len(block) + 1] = read[k + 1]
                   ELSE Len(after) = k + Len(block)
          /\ hist[n].category = <<>> =>
                /\ k = Len(read)
                /\ BlockAfter(read, after, block, k)
                /\ Len(after) = k + Len(block)

\* a binding with a description was added to the section nav of a config
\* "# nav", "# notes", "# Panes": after "# notes", before "# Panes"
C23_Witness ==
    /\ Len(hist) = 1
    /\ 1 \in Adds
    /\ hist[1].category = Cat_nav
    /\ hist[1].description = D_d
    /\ LinesBefore(1) = <<L_nav, H_notes, H_panes>>
    /\ LinesAfter(1) = <<L_nav, H_notes>> \o Block(1) \o <<H_panes>>

\* the header add_keybinding makes for a category
HeaderOf(category) == <<"#", SP>> \o Title(category) \o W_keybindings

\* C24 (SectionSpec): when a category is given and no line of the file matches
\* it, add_keybinding appends at end of file a blank line, the header
\* "# <Category in title case> keybindings" and the binding; every later
\* add_keybinding with the same category finds a header, so a header is made at
\* most once per category.
C24_HeaderMadeOnce ==
    \A n \in Adds :
      hist[n].category # <<>> =>
        \A s \in {HeaderTaken(n)} :
          /\ s = 0 =>
                LinesAfter(n) = LinesRead(n) \o <<L_blank, HeaderOf(hist[n].category)>>
                                  \o Block(n)
          /\ \A m \in Adds : (m < n /\ hist[m].category = hist[n].category) => s # 0

\* the blocks of new lines call n may write: the description comment, if any,
\* and the bind line, after a blank line and the header when a category is given
NewBlocks(n) ==
    {Block(n)} \cup (IF hist[n].category # <<>>
                     THEN {<<L_blank, HeaderOf(hist[n].category)>> \o Block(n)}
                     ELSE {})

\* C30 (SectionSpec): a successful add_keybinding on a config leaves every
\* line the config had present, unchanged and in the same order; the new lines
\* (the header with its blank line if one is made, the description comment if
\* any, the bind line) are inserted as one contiguous block.
C30_LinesKept ==
    \A n \in Adds :
      hist[n].pre.exists =>
        \A before \in {LinesBefore(n)}, after \in {LinesAfter(n)} :
          \E k \in 0..Len(before), new \in NewBlocks(n) :
              after = SubSeq(before, 1, k) \o new \o SubSeq(before, k + 1, Len(before))

\* the lines of the text that the duplicate check recognises as a binding of
\* the key in the mode: those a match of its pattern, begun at the start of a
\* line, runs over
LineOf(content, p) == 1 + Cardinality({q \in 1..(p - 1) : content[q] = NL})
LineStarts(content) ==
    {p \in 1..Len(content) : p = 1 \/ content[p - 1] = NL}
RecognisedLines(content, keybind, mode) ==
    UNION {LET m == MatchFrom(ExistsPattern(keybind, mode), 1, content, st)
           IN IF m = 0 THEN {} ELSE LineOf(content, st)..LineOf(content, m - 1) :
           st \in LineStarts(content)}
NonBlank(ls) == SelectSeq(ls, LAMBDA l : Strip(l) # <<>>)
\* the lines ls without those whose number is in the set gone
Without(ls, gone) ==
    LET kept == {i \in 1..Len(ls) : i \notin gone}
        Nth(n) == CHOOSE i \in kept : Cardinality({j \in kept : j < i}) = n - 1
    IN [n \in 1..Cardinality(kept) |-> ls[Nth(n)]]

\* C25 (TextSpec): a successful remove_keybinding(key, mode) deletes exactly
\* the lines the duplicate check recognises as bindings of the key in the mode:
\* every other non-blank line (comments, bindings of other keys, bindings of
\* the key in another mode) is present afterwards, unchanged and in the same
\* order.
C25_RemovesOnlyRecognised ==
    (Len(hist) = 1 /\ hist[1].op = "remove_keybinding" /\ hist[1].ok) =>
        NonBlank(LinesAfter(1))
          = NonBlank(Without(LinesBefore(1),
                             RecognisedLines(TextOfFile(hist[1].pre), hist[1].keybind,
                                             hist[1].mode)))

\* the number of prefixes at the head of the key token k that are stripped: the
\* largest n for which k begins with n pairs of C, M or S and "-" and has at
\* least one character after them
PrefixPairs(k, n) ==
    /\ Len(k) >= 2 * n + 1
    /\ \A i \in 1..n : k[2 * i - 1] \in {"C", "M", "S"} /\ k[2 * i] = "-"
StrippedCount(k) ==
    CHOOSE n \in 0..Len(k) : PrefixPairs(k, n) /\ \A m \in (n + 1)..Len(k) : ~PrefixPairs(k, m)
TokenIsKey(t) ==
    t.key \in UnquotedKeys /\ t.flags \notin {<<F_T(m), F_n>> : m \in TableNames}

ShowCurrentRuns ==
    /\ ~window.closed
    /\ \E j \in 1..Len(timers) :
          /\ timers[j].callback = "_show_current"
          /\ CanFire(timers, j)
          /\ timers' = RemoveAt(timers, j)
          /\ keylog' = keylog

\* C27 (OverlaySpec): for every sequence of key events and timer callbacks
\* 0 <= current_index <= len(steps) in every state, and _show_current is never
\* run with current_index = len(steps) or more (no step is read out of range),
\* key events between the match of the last step and the closing of the window
\* included.
C27_IndexInRange ==
    [][/\ 0 <= controller'.current_index
       /\ controller'.current_index <= Len(controller'.steps)
       /\ ShowCurrentRuns => controller.current_index < Len(controller.steps)]_vars

\* the add_keybinding call of a ReparseSpec behaviour has returned
Added == Len(hist) >= 2 /\ hist[2].op = "add_keybinding"

\* C28 (ReparseSpec): the duplicate check of the merger never misses a binding
\* the parser reports: when parsing the config yields a Keybinding with
\* key_combo k and mode m, add_keybinding(k, ..., m) on that config is rejected
\* as already existing and writes nothing.
C28_ParsedBindingIsDuplicate ==
    Added /\ has_binding([keybindings |-> hist[1].results], hist[2].keybind, hist[2].mode)
        => /\ ~hist[2].ok
           /\ hist[2].msg = <<"Binding for ", hist[2].keybind, " already exists">>
           /\ hist[2].post = hist[2].pre
           /\ hist[2].bpost = hist[2].bpre

\* the Keybinding as the claims compare it: key_combo, mode and command
Summary(kb) == [key_combo |-> key_combo(kb), mode |-> kb.mode, command |-> kb.command]

\* C29 (ReparseSpec): after a successful add_keybinding(key, command, mode),
\* with key free of whitespace and command non-empty, parsing the file yields
\* exactly one Keybinding more than parsing the file before the call, and that
\* Keybinding has key_combo = key, mode = mode and command = command.
C29_ParsedBackAsAdded ==
    Len(hist) = 3 /\ hist[2].ok
        => \A before \in {hist[1].results}, after \in {hist[3].results} :
              /\ Len(after) = Len(before) + 1
              /\ \E i \in 1..Len(after) :
                    /\ Summary(after[i]) = [key_combo |-> hist[2].keybind,
                                            mode |-> hist[2].mode,
                                            command |-> hist[2].command]
                    /\ RemoveAt(after, i) = before

====
